---- MODULE Spec2Model ----
(***************************************************************************)
(* A model of the core of the QLever SPARQL engine:                        *)
(*   - the result exporter (src/src/engine/ExportQueryExecutionTrees.cpp), *)
(*     a cooperative generator that streams the rows of a result table in  *)
(*     one of several media types and polls a cancellation handle;         *)
(*   - the decoding of a resolved string into a SPARQL-JSON / SPARQL-XML   *)
(*     binding (stringAndTypeToBinding, idToXMLBinding);                   *)
(*   - the query planner (src/src/engine/QueryPlanner.cpp): triple graph,  *)
(*     seeding, DP enumeration with merge, and plan selection.             *)
(*   - BlankNodeManager and TripleComponent, as their unit tests          *)
(*     (src/test) use them.                                                *)
(* Each part has a specification of its own (ExportSpec, BindingSpec,      *)
(* PlannerSpec, BlankNodeSpec, TripleComponentSpec); the variables of the  *)
(* other parts stay at their idle values.                                  *)
(***************************************************************************)
EXTENDS Integers, Sequences, FiniteSets, TLC

VARIABLES
  \* ---- exporter ----
  query,      \* the export request: entry point, media type, query kind, table, LIMIT/OFFSET
  pc,         \* position of the export generator: "idle", "start", "rows", "done", "error"
  pos,        \* position (1-based) in the range of row indices of the row loop
  tpos,       \* CONSTRUCT: position (1-based) in the construct template
  cancel,     \* the cancellation handle's flag
  out,        \* the chunks the export has yielded so far, as tokens <<kind, row>>
  err,        \* "none", or the kind of exception that left the entry point
  operation,  \* the operation name the cancellation exception is tagged with
  doc,        \* materialised exports: the elements of the JSON array built so far
  nres,       \* number of rows put into `res` so far (tool-JSON exports)
  rows,       \* history: the row indices whose loop body was run, in order
  cancelAt,   \* history: where the generator stood when the handle was set
  \* ---- binding decoder ----
  entitystr,  \* the resolved string handed to the decoder (a sequence of characters)
  xsdType,    \* the datatype IRI the resolver returned with it, or nullptr
  binding,    \* the SPARQL-JSON binding computed from it
  xmlBinding, \* the SPARQL-XML binding computed from it
  \* ---- query planner ----
  pq,         \* the parsed query: where-clause triples, filters, ORDER BY, DISTINCT, ...
  ppc,        \* position in createExecutionTree: "idle", "start", "seed", "merge",
              \* "post", "done", "error"
  tg,         \* the triple graph
  finalTab,   \* the DP table: a sequence of rows, each a sequence of plans
  mergeK,     \* fillDpTab: the row k being filled
  mergeI,     \* fillDpTab: the index i of the next merge(dpTab[i-1], dpTab[k-i-1])
  plan,       \* the execution tree createExecutionTree returns
  perr,       \* "none", or the kind of exception createExecutionTree throws
  maxShared,  \* history: the largest number of shared variables of a pair merge looked at
  \* ---- BlankNodeManager ----
  usedBlocksSet, \* BlankNodeManager::usedBlocksSet_: the indices of the blocks in use
  alive,      \* for each LocalBlankNodeManager: whether it is constructed and not destroyed
  blocks,     \* for each LocalBlankNodeManager: blocks_, a sequence of blocks
  lastId,     \* <<id>> for the id the last getId returned, <<>> before
  \* ---- TripleComponent ----
  tc,         \* the variant the TripleComponent holds
  tcInput,    \* the value of the last construction or assignment
  tcThrown,   \* whether the last construction or assignment threw
  tcOps,      \* number of constructions and assignments so far
  \* ---- TripleGraph::splitAtContextVars ----
  splitIn,    \* the call: the graph, origFilters, contextVarToTextNodes (in iteration order)
  splitOut,   \* the sequence of (graph, filters) pairs it returned
  spc,        \* "idle", "call", "returned", "aborted" (a failed assert)
  \* ---- LazyJsonParser ----
  ljDocument, \* the JSON document that is fed to the parser, and its arrayPath
  ljFed,      \* number of characters of the document handed to parseChunk so far
  ljParser,   \* the members of the LazyJsonParser
  ljResults   \* history: the strings the calls of parseChunk returned, in call order,
              \* each with inArrayPath_ at its return

utilVars == <<usedBlocksSet, alive, blocks, lastId, tc, tcInput, tcThrown, tcOps,
              splitIn, splitOut, spc, ljDocument, ljFed, ljParser, ljResults>>
exportVars == <<query, pc, pos, tpos, cancel, out, err, operation, doc, nres, rows, cancelAt>>
bindingVars == <<entitystr, xsdType, binding, xmlBinding>>
plannerVars == <<pq, ppc, tg, finalTab, mergeK, mergeI, plan, perr, maxShared>>
vars == <<exportVars, bindingVars, plannerVars, utilVars>>

(***************************************************************************)
(* Bounds of the model.                                                    *)
(***************************************************************************)
MaxRows == 3
MaxLimit == 1
MaxOffset == 1
MaxCols == 2
MaxTemplate == 2
MaxStrLen == 5
MaxTriples == 3
MaxLocals == 2
MaxBlockIdx == 3
MaxOps == 3

Min(a, b) == IF a < b THEN a ELSE b
Max(a, b) == IF a < b THEN b ELSE a

SeqsUpTo(S, n) == UNION {[1..k -> S] : k \in 0..n}

\* The elements of a finite set of numbers in increasing order.
RECURSIVE SortedSeq(_)
SortedSeq(S) ==
  IF S = {} THEN <<>>
  ELSE LET least == CHOOSE x \in S : \A y \in S : x <= y
       IN <<least>> \o SortedSeq(S \ {least})

Range(seq) == {seq[k] : k \in 1..Len(seq)}

Reverse(seq) == [k \in 1..Len(seq) |-> seq[Len(seq) + 1 - k]]

RECURSIVE Flatten(_)
Flatten(ss) == IF ss = <<>> THEN <<>> ELSE Head(ss) \o Flatten(Tail(ss))

(***************************************************************************)
(* Decoding of a resolved string into a binding.  Strings are sequences of *)
(* characters; positions are 0-based as in the code, npos is the largest   *)
(* size_t.  size_t arithmetic is modulo SizeModulus (2^64 in the code; any *)
(* modulus above the string lengths gives the same comparisons).           *)
(***************************************************************************)
Chars == {"\"", "<", ">", "_", ":", "@", "^", "a"}

SizeModulus == 2^16
npos == SizeModulus - 1
SizeT(x) == x % SizeModulus

nullptr == <<>>
XsdTypes == {<<"a", ":", "a">>}

\* entitystr[i], 0 <= i < size
At(str, i) == str[i + 1]

\* std::string_view::substr(from, count), from <= size
substr(str, from, count) == SubSeq(str, from + 1, from + Min(count, Len(str) - from))

\* std::string_view::rfind(c)
rfind(str, c) ==
  IF \E k \in 1..Len(str) : str[k] = c
    THEN (CHOOSE k \in 1..Len(str) : str[k] = c /\ \A l \in (k + 1)..Len(str) : str[l] # c) - 1
    ELSE npos

starts_with(str, prefix) ==
  Len(str) >= Len(prefix) /\ SubSeq(str, 1, Len(prefix)) = prefix

\* RdfEscaping::escapeForXml
escapeForXml(str) ==
  Flatten([k \in 1..Len(str) |->
             CASE str[k] = "<" -> <<"&", "l", "t", ";">>
               [] str[k] = ">" -> <<"&", "g", "t", ";">>
               [] str[k] = "\"" -> <<"&", "q", "u", "o", "t", ";">>
               [] OTHER -> <<str[k]>>])

\* A binding: its type ("uri", "bnode", "literal"), its value, and at most one
\* attribute ("xml:lang" or "datatype") with its content.
Binding(type, value, attr, content) ==
  [type |-> type, value |-> value, attr |-> attr, content |-> content]

NoBinding == Binding("none", <<>>, "none", <<>>)

\* A failed AD_CONTRACT_CHECK / AD_CORRECTNESS_CHECK.
CheckFailed(kind) == Binding("error", <<>>, kind, <<>>)

\* The tail of the literal branch of both decoders: the look for a language
\* tag or a datatype behind the last quote.  `esc` is the escaping applied to
\* the value and the datatype (xml: escapeForXml, else none), `check` the
\* kind of the first check; `oob` is what a read behind the end of the string
\* gives (TRUE: a '^').
escape(xml, str) == IF xml THEN escapeForXml(str) ELSE str

LiteralBinding(str, quotePos, xml, check, oob) ==
  LET size == Len(str)
      value == escape(xml, substr(str, 1, SizeT(quotePos - 1)))
      read(i) == IF i < size THEN At(str, i) = "^" ELSE oob
  IN IF quotePos < size - 1 /\ At(str, quotePos + 1) = "@"
       THEN Binding("literal", value, "xml:lang", substr(str, quotePos + 2, npos))
     ELSE IF quotePos < SizeT(size - 2) /\ read(quotePos + 1)
       THEN IF ~read(quotePos + 2) THEN CheckFailed(check)
            ELSE IF ~(size >= quotePos + 5) THEN CheckFailed("contract")
            ELSE Binding("literal", value, "datatype",
                         escape(xml, SubSeq(str, quotePos + 5, size - 1)))
     ELSE Binding("literal", value, "none", <<>>)

stringAndTypeToBinding(str, type, oob) ==
  IF type # nullptr THEN Binding("literal", str, "datatype", type)
  ELSE IF starts_with(str, <<"<">>)
    THEN Binding("uri", substr(str, 1, SizeT(Len(str) - 2)), "none", <<>>)
  ELSE IF starts_with(str, <<"_", ":">>)
    THEN Binding("bnode", substr(str, 2, npos), "none", <<>>)
  ELSE LET quotePos == rfind(str, "\"") IN
    IF quotePos = npos
      THEN Binding("literal", str, "none", <<>>)
      ELSE LiteralBinding(str, quotePos, FALSE, "contract", oob)

\* The content of the <binding> element idToXMLBinding builds.
idToXMLBinding(str, type, oob) ==
  IF type # nullptr THEN Binding("literal", str, "datatype", type)
  ELSE IF starts_with(str, <<"<">>)
    THEN Binding("uri", escapeForXml(substr(str, 1, SizeT(Len(str) - 2))), "none", <<>>)
  ELSE IF starts_with(str, <<"_", ":">>)
    THEN Binding("bnode", substr(str, 2, npos), "none", <<>>)
  ELSE LET quotePos == rfind(str, "\"") IN
    IF quotePos = npos
      THEN Binding("literal", escapeForXml(str), "none", <<>>)
      ELSE LiteralBinding(str, quotePos, TRUE, "correctness", oob)

\* One binding of one row of the SPARQL-JSON export is computed.
DecodeJson ==
  /\ binding = NoBinding
  /\ \E oob \in BOOLEAN : binding' = stringAndTypeToBinding(entitystr, xsdType, oob)
  /\ UNCHANGED <<entitystr, xsdType, xmlBinding>>

\* One binding of one row of the SPARQL-XML export is computed.
DecodeXml ==
  /\ xmlBinding = NoBinding
  /\ \E oob \in BOOLEAN : xmlBinding' = idToXMLBinding(entitystr, xsdType, oob)
  /\ UNCHANGED <<entitystr, xsdType, binding>>

BindingIdle ==
  /\ entitystr = <<>>
  /\ xsdType = nullptr
  /\ binding = NoBinding
  /\ xmlBinding = NoBinding

(***************************************************************************)
(* The query planner.  Terms are strings; a variable is a term with a      *)
(* leading '?', modelled by membership in Variables.                       *)
(***************************************************************************)
Variables == <<"?c", "?p", "?x", "?y", "?z">>

IN_CONTEXT_RELATION == "<in-context>"
HAS_CONTEXT_RELATION == "<has-context>"

isVariable(elem) == elem \in Range(Variables)

SparqlTriple(s, p, o) == [s |-> s, p |-> p, o |-> o]

\* TripleGraph::Node(id, triple): the variables of a node are a set.
Node(id, t) ==
  [id |-> id, triple |-> t,
   variables |-> {e \in {t.s, t.p, t.o} : isVariable(e)},
   cvar |-> "", wordPart |-> <<>>]

\* TripleGraph::Node(id, cvar, wordPart, trips): the node of a text clique.
TextNode(id, cvar, wordPart, trips) ==
  [id |-> id, triple |-> SparqlTriple(cvar, IN_CONTEXT_RELATION, "words"),
   variables |-> {cvar} \cup
     UNION {{e \in {trips[k].s, trips[k].p, trips[k].o} : isVariable(e)} : k \in 1..Len(trips)},
   cvar |-> cvar, wordPart |-> wordPart]

\* The node with identifier i (identifiers are 0-based).
NodeOf(graph, i) == graph.nodes[i + 1]
AdjOf(graph, i) == graph.adjLists[i + 1]

\* A variant of the loop body that pushes the edge to the list of the added
\* node only.
AddNode_oneWay(graph, t) ==
  LET added == Node(Len(graph.nodes), t)
      addedVars == SelectSeq(Variables, LAMBDA v : v \in added.variables)
      sharing(k) == SelectSeq([i \in 1..Len(graph.nodes) |-> i - 1],
                              LAMBDA i : addedVars[k] \in NodeOf(graph, i).variables)
  IN [nodes |-> Append(graph.nodes, added),
      adjLists |-> Append(graph.adjLists, Flatten([k \in 1..Len(addedVars) |-> sharing(k)]))]

\* createTripleGraph, one iteration of its loop: the node for triple t is added
\* and, for each of its variables and each earlier node holding that variable,
\* an edge is pushed to both adjacency lists.
AddNode(graph, t) ==
  LET added == Node(Len(graph.nodes), t)
      addedVars == SelectSeq(Variables, LAMBDA v : v \in added.variables)
      \* the earlier nodes sharing addedVars[k], ascending
      sharing(k) == SelectSeq([i \in 1..Len(graph.nodes) |-> i - 1],
                              LAMBDA i : addedVars[k] \in NodeOf(graph, i).variables)
      ownList == Flatten([k \in 1..Len(addedVars) |-> sharing(k)])
      times(i) == Cardinality({k \in 1..Len(addedVars) :
                                 addedVars[k] \in NodeOf(graph, i).variables})
  IN [nodes |-> Append(graph.nodes, added),
      adjLists |->
        Append([i \in 1..Len(graph.nodes) |->
                  graph.adjLists[i] \o [k \in 1..times(i - 1) |-> added.id]],
               ownList)]

RECURSIVE createTripleGraphFrom(_, _)
createTripleGraphFrom(graph, triples) ==
  IF triples = <<>> THEN graph
  ELSE createTripleGraphFrom(AddNode(graph, Head(triples)), Tail(triples))

EmptyGraph == [nodes |-> <<>>, adjLists |-> <<>>]

createTripleGraph(parsed) == createTripleGraphFrom(EmptyGraph, parsed.triples)

isTextNode(graph, i) ==
  /\ i < Len(graph.nodes)
  /\ NodeOf(graph, i).triple.p \in {IN_CONTEXT_RELATION, HAS_CONTEXT_RELATION}

NodeIds(graph) == [i \in 1..Len(graph.nodes) |-> i - 1]

\* identifyTextCliques, first loop: the context variables.
ContextVarsOf(graph) ==
  {e \in Range(Variables) :
     \E i \in Range(NodeIds(graph)) :
       LET t == NodeOf(graph, i).triple
       IN /\ isTextNode(graph, i)
          /\ \/ ~isVariable(t.s) /\ t.o = e
             \/ ~isVariable(t.o) /\ t.s = e}

\* identifyTextCliques: the exception it throws, or "none".  A text triple
\* without a variable endpoint is a BAD_QUERY; a text triple whose endpoints
\* are both context variables fails AD_CHECK_EQ.
identifyTextCliquesError(graph) ==
  LET text == SelectSeq(NodeIds(graph), LAMBDA i : isTextNode(graph, i))
      cvars == ContextVarsOf(graph)
  IN IF \E k \in 1..Len(text) :
          LET t == NodeOf(graph, text[k]).triple
          IN ~isVariable(t.s) /\ ~isVariable(t.o)
       THEN "BAD_QUERY"
     ELSE IF \E k \in 1..Len(text) :
          LET t == NodeOf(graph, text[k]).triple
          IN t.s \in cvars /\ t.o \in cvars
       THEN "CHECK_FAILED"
     ELSE "none"

\* A variant that looks at the subject of a text triple only.
TextNodesOf_subjectOnly(graph, cvar) ==
  SelectSeq(NodeIds(graph),
            LAMBDA i : isTextNode(graph, i) /\ cvar = NodeOf(graph, i).triple.s)

\* identifyTextCliques: for a context variable, the text nodes it occurs in.
TextNodesOf(graph, cvar) ==
  SelectSeq(NodeIds(graph),
            LAMBDA i : isTextNode(graph, i)
                         /\ cvar \in {NodeOf(graph, i).triple.s, NodeOf(graph, i).triple.o})

\* The entries of the unordered_map identifyTextCliques returns, in the order
\* the map is iterated in: by key, ascending or descending.
identifyTextCliques(graph, descending) ==
  LET keys == SelectSeq(Variables, LAMBDA v : v \in ContextVarsOf(graph)
                                               /\ TextNodesOf(graph, v) # <<>>)
      entries == [k \in 1..Len(keys) |->
                    [cvar |-> keys[k], ids |-> TextNodesOf(graph, keys[k])]]
  IN IF descending THEN Reverse(entries) ELSE entries

\* collapseTextCliques: the word part of a clique - the non-variable
\* counterparts of the context variable, in the order of the clique's nodes.
WordPartOf(graph, entry) ==
  Flatten([k \in 1..Len(entry.ids) |->
             LET t == NodeOf(graph, entry.ids[k]).triple
             IN (IF t.s = entry.cvar /\ ~isVariable(t.o) THEN <<t.o>> ELSE <<>>)
                  \o (IF t.o = entry.cvar /\ ~isVariable(t.s) THEN <<t.s>> ELSE <<>>)])

collapseTextCliques(graph, descending) ==
  LET cliques == identifyTextCliques(graph, descending)
      m == Len(cliques)
      removed == UNION {Range(cliques[j].ids) : j \in 1..m}
      \* removedNodeIds: the (0-based) text node an old node went into
      removedTo(nid) == (CHOOSE j \in 1..m : nid \in Range(cliques[j].ids)) - 1
      kept == SelectSeq(NodeIds(graph), LAMBDA i : i \notin removed)
      \* idMapOldToNew
      newId(nid) == m - 1 + CHOOSE k \in 1..Len(kept) : kept[k] = nid
      textNodes == [j \in 1..m |->
                      TextNode(j - 1, cliques[j].cvar, WordPartOf(graph, cliques[j]),
                               [k \in 1..Len(cliques[j].ids) |->
                                  NodeOf(graph, cliques[j].ids[k]).triple])]
      tnAdj(j) == UNION {Range(AdjOf(graph, cliques[j].ids[k])) :
                           k \in 1..Len(cliques[j].ids)}
      textAdj(j) == {newId(nid) : nid \in tnAdj(j) \ removed}
                      \cup {removedTo(nid) : nid \in {r \in tnAdj(j) \cap removed :
                                                         removedTo(r) # j - 1}}
      keptAdj(nid) == {newId(v) : v \in Range(AdjOf(graph, nid)) \ removed}
                        \cup {removedTo(v) : v \in Range(AdjOf(graph, nid)) \cap removed}
  IN IF m = 0 THEN graph
     ELSE [nodes |-> textNodes \o
                       [k \in 1..Len(kept) |->
                          [NodeOf(graph, kept[k]) EXCEPT !.id = m + k - 1]],
           adjLists |-> [j \in 1..m |-> SortedSeq(textAdj(j))] \o
                          [k \in 1..Len(kept) |-> SortedSeq(keptAdj(kept[k]))]]

isPureTextQuery(graph) ==
  Len(graph.nodes) = 1 /\ graph.nodes[1].cvar # ""

\* bfsLeaveOut, its loop: the front of the queue goes to the result, and its
\* neighbours that are neither visited nor left out go to the queue.
RECURSIVE PushNeighbours(_, _, _, _)
PushNeighbours(neighbors, queue, visited, leaveOut) ==
  IF neighbors = <<>> THEN [queue |-> queue, visited |-> visited]
  ELSE LET v == Head(neighbors) IN
    IF v \notin visited /\ v \notin leaveOut
      THEN PushNeighbours(Tail(neighbors), Append(queue, v), visited \cup {v}, leaveOut)
      ELSE PushNeighbours(Tail(neighbors), queue, visited, leaveOut)

RECURSIVE bfsFrom(_, _, _, _, _)
bfsFrom(graph, queue, visited, res, leaveOut) ==
  IF queue = <<>> THEN res
  ELSE LET n == Head(queue)
           pushed == PushNeighbours(AdjOf(graph, n), Tail(queue), visited, leaveOut)
       IN bfsFrom(graph, pushed.queue, pushed.visited, Append(res, n), leaveOut)

bfsLeaveOut(graph, startNode, leaveOut) ==
  bfsFrom(graph, <<startNode>>, {startNode}, <<>>, leaveOut)

\* coveredVariables.count(f._lhs) > 0 || coveredVariables.count(f._rhs) > 0
filterPicked(f, coveredVariables) ==
  f.lhs \in coveredVariables \/ f.rhs \in coveredVariables

\* pickFilters
pickFilters(graph, origFilters, nodes) ==
  LET coveredVariables == UNION {NodeOf(graph, nodes[k]).variables : k \in 1..Len(nodes)}
  IN SelectSeq(origFilters, LAMBDA f : filterPicked(f, coveredVariables))

\* TripleGraph(other, keepNodes): the kept nodes in the order of their ids,
\* numbered from 0, and their adjacency lists without the dropped nodes.
SubGraph(other, keepNodes) ==
  LET keep == Range(keepNodes)
      kept == SelectSeq(NodeIds(other), LAMBDA i : i \in keep)
      idChange(i) == (CHOOSE k \in 1..Len(kept) : kept[k] = i) - 1
  IN [nodes |-> [k \in 1..Len(kept) |-> [NodeOf(other, kept[k]) EXCEPT !.id = k - 1]],
      adjLists |-> [k \in 1..Len(kept) |->
                      LET adj == SelectSeq(AdjOf(other, kept[k]), LAMBDA v : v \in keep)
                      IN [x \in 1..Len(adj) |-> idChange(adj[x])]]]

\* The first node from startNode on that is not in the set, or the number of
\* nodes.
RECURSIVE SkipNodes(_, _, _)
SkipNodes(startNode, size, done) ==
  IF startNode < size /\ startNode \in done
    THEN SkipNodes(startNode + 1, size, done) ELSE startNode

\* splitAtContextVars, the loop that finds the other parts.
RECURSIVE FindParts(_, _, _, _, _)
FindParts(graph, startNode, nodesDone, sets, textNodeIds) ==
  IF Cardinality(nodesDone) < Len(graph.adjLists)
    THEN LET nextStart == SkipNodes(startNode, Len(graph.adjLists), nodesDone)
             reachableNodes == bfsLeaveOut(graph, nextStart, textNodeIds)
         IN FindParts(graph, nextStart, nodesDone \cup Range(reachableNodes),
                      Append(sets, reachableNodes), textNodeIds)
    ELSE sets

\* splitAtContextVars.  contextVarToTextNodes is the sequence of the entries
\* of the map in the order it is iterated in.  The ids of the map are ids of
\* the graph of the first call; the recursive calls are made on renumbered
\* graphs with the same ids.  reachableNodes.size() is compared with an
\* unsigned difference, which it does not equal when there are more text
\* node ids than nodes.  assertFailed: the assert of line 959 is false in
\* this call or in a call below it.
RECURSIVE splitAtContextVars(_, _, _)
splitAtContextVars(graph, origFilters, contextVarToTextNodes) ==
  IF contextVarToTextNodes = <<>>
    THEN [assertFailed |-> FALSE,
          retVal |-> <<[graph |-> graph, filters |-> origFilters]>>]
  ELSE
    LET textNodeIds == Range(contextVarToTextNodes[1].ids)
        cTMapNextIteration == Tail(contextVarToTextNodes)
        size == Len(graph.adjLists)
        startNode == SkipNodes(0, size, textNodeIds)
        reachableNodes == bfsLeaveOut(graph, startNode, textNodeIds)
        split(rNodes) == splitAtContextVars(SubGraph(graph, rNodes),
                                            pickFilters(graph, origFilters, rNodes),
                                            cTMapNextIteration)
        nodesDone == textNodeIds \cup Range(reachableNodes)
        setsOfReachablesNodes ==
          FindParts(graph, startNode, nodesDone, <<reachableNodes>>, textNodeIds)
        results == [k \in 1..Len(setsOfReachablesNodes) |-> split(setsOfReachablesNodes[k])]
    IN IF startNode = size THEN [assertFailed |-> FALSE, retVal |-> <<>>]
       ELSE IF Len(reachableNodes) = size - Cardinality(textNodeIds) THEN split(reachableNodes)
       ELSE [assertFailed |-> \/ ~(Cardinality(nodesDone) < size)
                              \/ \E k \in 1..Len(results) : results[k].assertFailed,
             retVal |-> Flatten(Reverse([k \in 1..Len(results) |-> results[k].retVal]))]

(***************************************************************************)
(* Execution trees.  The operators (IndexScan, Sort, Join, Filter, ...)    *)
(* are not part of the sources at hand: a tree carries what the planner    *)
(* reads from it - its type, its variable-column map (a set of pairs       *)
(* <<variable, column>>), its context variables, the column it is sorted   *)
(* on, its width and its cost estimate.                                    *)
(***************************************************************************)
NotSorted == -1

Tree(type, detail, vcm, ctx, sortedOn, width, cost, kids) ==
  [type |-> type, detail |-> detail, vcm |-> vcm, ctx |-> ctx,
   sortedOn |-> sortedOn, width |-> width, cost |-> cost, kids |-> kids]

EmptyTree == Tree("UNDEFINED", <<>>, {}, {}, NotSorted, 0, 0, <<>>)

\* unordered_map<string, size_t>: count, find, operator[]
varCovered(vcm, var) == \E e \in vcm : e[1] = var
getVariableColumn(vcm, var) == (CHOOSE e \in vcm : e[1] = var)[2]
MapPut(vcm, var, col) == {e \in vcm : e[1] # var} \cup {<<var, col>>}

ScoreVar(cvar) ==
  CASE cvar = "?c" -> "SCORE(?c)"
    [] cvar = "?p" -> "SCORE(?p)"
    [] cvar = "?x" -> "SCORE(?x)"
    [] cvar = "?y" -> "SCORE(?y)"
    [] OTHER -> "SCORE(?z)"

IndexScan(scanType, detail, vcm) ==
  Tree("SCAN", <<scanType>> \o detail, vcm, {}, 0, Cardinality(vcm), Cardinality(vcm), <<>>)

Sort(subtree, col, ctx) ==
  Tree("SORT", <<col>>, subtree.vcm, ctx, col, subtree.width, subtree.cost + 2, <<subtree>>)

\* Join::getVariableColumns: the columns of the left side, then those of the
\* right side without its join column.
JoinColumnsOf(left, right, jc2) ==
  LET moved == {<<e[1], left.width + e[2] - (IF e[2] > jc2 THEN 1 ELSE 0)>> :
                  e \in {r \in right.vcm : r[2] # jc2}}
  IN {e \in left.vcm : ~varCovered(moved, e[1])} \cup moved

Join(left, right, jc1, jc2) ==
  Tree("JOIN", <<jc1, jc2>>, JoinColumnsOf(left, right, jc2), {}, jc1,
       left.width + right.width - 1, left.cost + right.cost + 1, <<left, right>>)

Filter(subtree, lhs, rhs) ==
  Tree("FILTER", <<lhs, rhs>>, subtree.vcm, subtree.ctx, subtree.sortedOn,
       subtree.width, subtree.cost + 1, <<subtree>>)

OrderBy(subtree, sortIndices) ==
  Tree("ORDER_BY", sortIndices, subtree.vcm, subtree.ctx, NotSorted,
       subtree.width, subtree.cost + 2, <<subtree>>)

Distinct(subtree, keepIndices) ==
  Tree("DISTINCT", keepIndices, subtree.vcm, subtree.ctx, subtree.sortedOn,
       subtree.width, subtree.cost + 1, <<subtree>>)

TextOperationWithoutFilter(wordPart, nofVars, vcm, cvar) ==
  Tree("TEXT_WITHOUT_FILTER", <<wordPart, nofVars>>, vcm, {cvar}, NotSorted,
       2 + nofVars, 2 + nofVars, <<>>)

TextOperationWithFilter(wordPart, nofVars, other, otherJc, vcm, ctx) ==
  Tree("TEXT_WITH_FILTER", <<wordPart, nofVars, otherJc>>, vcm, ctx, NotSorted,
       1 + nofVars + other.width, other.cost + 1, <<other>>)

TextOperationForContexts(wordPart, cvar) ==
  Tree("TEXT_FOR_CONTEXTS", <<wordPart, 1>>, {<<cvar, 0>>, <<ScoreVar(cvar), 1>>},
       {cvar}, NotSorted, 2, 2, <<>>)

SubtreePlan(qet, nodes, filters) ==
  [qet |-> qet, idsOfIncludedNodes |-> nodes, idsOfIncludedFilters |-> filters]

getCostEstimate(p) == p.qet.cost

\* getTextLeafPlan
getTextLeafPlan(node) ==
  LET others == SelectSeq(Variables, LAMBDA v : v \in node.variables /\ v # node.cvar)
      vcmap == {<<node.cvar, 0>>, <<ScoreVar(node.cvar), 1>>}
                 \cup {<<others[k], k + 1>> : k \in 1..Len(others)}
  IN SubtreePlan(
       TextOperationWithoutFilter(node.wordPart, Cardinality(node.variables) - 1,
                                  vcmap, node.cvar),
       {node.id}, {})

\* seedWithScansAndText, the body of its loop for one node: the exception it
\* throws, or "none".
SeedError(node) ==
  IF node.cvar # "" THEN (IF node.wordPart = <<>> THEN "CHECK_FAILED" ELSE "none")
  ELSE CASE Cardinality(node.variables) = 0 -> "BAD_QUERY"
         [] Cardinality(node.variables) = 1 ->
              IF isVariable(node.triple.s) \/ isVariable(node.triple.o)
                THEN "none" ELSE "NOT_YET_IMPLEMENTED"
         [] Cardinality(node.variables) = 2 ->
              IF isVariable(node.triple.p) THEN "NOT_YET_IMPLEMENTED" ELSE "none"
         [] OTHER -> "NOT_YET_IMPLEMENTED"

\* A variant of the loop body that adds one scan direction only.
SeedsOf_oneDirection(node) ==
  LET t == node.triple IN
  IF node.cvar # "" THEN <<getTextLeafPlan(node)>>
  ELSE IF Cardinality(node.variables) = 1
    THEN IF isVariable(t.s)
           THEN <<SubtreePlan(IndexScan("POS_BOUND_O", <<t.p, t.o>>, {<<t.s, 0>>}),
                              {node.id}, {})>>
           ELSE <<SubtreePlan(IndexScan("PSO_BOUND_S", <<t.p, t.s>>, {<<t.o, 0>>}),
                              {node.id}, {})>>
    ELSE <<SubtreePlan(IndexScan("PSO_FREE_S", <<t.p>>, MapPut({<<t.s, 0>>}, t.o, 1)),
                       {node.id}, {})>>

\* seedWithScansAndText, the body of its loop for one node: the seeds pushed.
SeedsOf(node) ==
  LET t == node.triple IN
  IF node.cvar # "" THEN <<getTextLeafPlan(node)>>
  ELSE IF Cardinality(node.variables) = 1
    THEN IF isVariable(t.s)
           THEN <<SubtreePlan(IndexScan("POS_BOUND_O", <<t.p, t.o>>, {<<t.s, 0>>}),
                              {node.id}, {})>>
           ELSE <<SubtreePlan(IndexScan("PSO_BOUND_S", <<t.p, t.s>>, {<<t.o, 0>>}),
                              {node.id}, {})>>
    ELSE <<SubtreePlan(IndexScan("PSO_FREE_S", <<t.p>>, MapPut({<<t.s, 0>>}, t.o, 1)),
                       {node.id}, {}),
           SubtreePlan(IndexScan("POS_FREE_O", <<t.p>>, MapPut({<<t.o, 0>>}, t.s, 1)),
                       {node.id}, {})>>

\* seedWithScansAndText: the exception of the first node that throws one.
seedError(graph) ==
  IF \A k \in 1..Len(graph.nodes) : SeedError(graph.nodes[k]) = "none" THEN "none"
  ELSE SeedError(graph.nodes[CHOOSE k \in 1..Len(graph.nodes) :
                              /\ SeedError(graph.nodes[k]) # "none"
                              /\ \A l \in 1..(k - 1) : SeedError(graph.nodes[l]) = "none"])

seedWithScansAndText(graph) ==
  Flatten([k \in 1..Len(graph.nodes) |-> SeedsOf(graph.nodes[k])])

\* A variant of connected without the test for overlap.
connected_withOverlap(a, b, graph) ==
  \E nodeId \in a.idsOfIncludedNodes :
    \E targetNodeId \in Range(AdjOf(graph, nodeId)) :
      /\ targetNodeId \notin a.idsOfIncludedNodes
      /\ targetNodeId \in b.idsOfIncludedNodes

\* connected: no node in common, and an edge from a node of a into b.
connected(a, b, graph) ==
  /\ a.idsOfIncludedNodes \cap b.idsOfIncludedNodes = {}
  /\ \E nodeId \in a.idsOfIncludedNodes :
       \E targetNodeId \in Range(AdjOf(graph, nodeId)) :
         /\ targetNodeId \notin a.idsOfIncludedNodes
         /\ targetNodeId \in b.idsOfIncludedNodes

\* getJoinColumns: a pair of columns for every variable both maps hold.
getJoinColumns(a, b) ==
  LET shared == SelectSeq(Variables \o [k \in 1..Len(Variables) |-> ScoreVar(Variables[k])],
                          LAMBDA v : varCovered(a.qet.vcm, v) /\ varCovered(b.qet.vcm, v))
  IN [k \in 1..Len(shared) |->
        <<getVariableColumn(a.qet.vcm, shared[k]), getVariableColumn(b.qet.vcm, shared[k])>>]

\* getPruningKey: the variable of the column the plan is ordered on, and the
\* sorted identifiers of its nodes.
getPruningKey(p, orderedOnCol) ==
  <<IF \E e \in p.qet.vcm : e[2] = orderedOnCol
      THEN (CHOOSE e \in p.qet.vcm : e[2] = orderedOnCol)[1] ELSE "",
    SortedSeq(p.idsOfIncludedNodes)>>

\* merge, the body of its loops for the pair (a, b): the text-with-filter
\* plan that is also considered when exactly one side is a text leaf.  The
\* text plan's map is iterated in `order`.
TextWithFilterPlan(a, b, jcs, order) ==
  LET aIsText == a.qet.type = "TEXT_WITHOUT_FILTER"
      textPlan == IF aIsText THEN a ELSE b
      otherPlan == IF aIsText THEN b ELSE a
      otherPlanJc == IF aIsText THEN jcs[1][2] ELSE jcs[1][1]
      cvar == CHOOSE v \in textPlan.qet.ctx : TRUE
      fresh == SelectSeq(order, LAMBDA v : /\ varCovered(textPlan.qet.vcm, v)
                                            /\ v # cvar
                                            /\ ~varCovered(otherPlan.qet.vcm, v))
      colN == 2 + Len(fresh)
      own == {e \in textPlan.qet.vcm : e[1] \in {cvar, ScoreVar(cvar)}}
               \cup {<<fresh[k], k + 1>> : k \in 1..Len(fresh)}
      moved == {<<e[1], colN + e[2]>> : e \in otherPlan.qet.vcm}
      vcmap == {e \in own : ~varCovered(moved, e[1])} \cup moved
  IN [plan |-> SubtreePlan(
                 TextOperationWithFilter(textPlan.qet.detail[1], textPlan.qet.detail[2],
                                         otherPlan.qet, otherPlanJc, vcmap,
                                         otherPlan.qet.ctx \cup {cvar}),
                 otherPlan.idsOfIncludedNodes \cup textPlan.idsOfIncludedNodes, {}),
      \* assert(colN == textPlan._qet.getResultWidth() - 1)
      asserted |-> colN = textPlan.qet.width - 1]

\* merge: the sort-and-join plan of the pair (a, b).
JoinPlan(a, b, jcs) ==
  LET left == IF a.qet.sortedOn = jcs[1][1] THEN a.qet ELSE Sort(a.qet, jcs[1][1], {})
      right == IF b.qet.sortedOn = jcs[1][2] THEN b.qet ELSE Sort(b.qet, jcs[1][2], {})
  IN SubtreePlan(Join(left, right, jcs[1][1], jcs[1][2]),
                 a.idsOfIncludedNodes \cup b.idsOfIncludedNodes,
                 a.idsOfIncludedFilters)

\* A variant of the check below that only refuses a pair without a shared
\* variable: if (jcs.size() == 0) AD_THROW(NOT_YET_IMPLEMENTED, ...)
JoinNotImplemented_onlyNone(jcs) == Len(jcs) = 0

\* if (jcs.size() != 1) AD_THROW(NOT_YET_IMPLEMENTED, ...)
JoinNotImplemented(jcs) == Len(jcs) # 1

\* merge, the first part: the loops over the pairs, as a fold.  acc.cands are
\* the candidates in the order they were emplaced, with their pruning keys;
\* acc.err the exception thrown; acc.shared the largest number of join
\* columns seen; acc.assertFailed whether an assert failed on the way (which
\* ends the planner there when asserts are compiled in), and acc.sharedThen
\* the value of acc.shared at that point.
RECURSIVE MergePairs(_, _, _, _)
MergePairs(pairs, graph, acc, order) ==
  IF pairs = <<>> \/ acc.err # "none" THEN acc
  ELSE
    LET a == Head(pairs)[1]
        b == Head(pairs)[2]
        jcs == getJoinColumns(a, b)
        oneIsText == (a.qet.type = "TEXT_WITHOUT_FILTER") # (b.qet.type = "TEXT_WITHOUT_FILTER")
        text == TextWithFilterPlan(a, b, jcs, order)
        textCands == IF oneIsText
                       THEN <<[key |-> getPruningKey(text.plan, jcs[1][1]), plan |-> text.plan]>>
                       ELSE <<>>
        join == JoinPlan(a, b, jcs)
        next ==
          IF ~connected(a, b, graph) THEN acc
          ELSE IF JoinNotImplemented(jcs)
            THEN [acc EXCEPT !.err = "NOT_YET_IMPLEMENTED",
                             !.shared = Max(acc.shared, Len(jcs))]
          ELSE [acc EXCEPT
                  !.cands = acc.cands \o textCands
                              \o <<[key |-> getPruningKey(join, jcs[1][1]), plan |-> join]>>,
                  !.shared = Max(acc.shared, Len(jcs)),
                  !.assertFailed = acc.assertFailed \/ (oneIsText /\ ~text.asserted),
                  !.sharedThen = IF acc.assertFailed THEN acc.sharedThen
                                 ELSE Max(acc.shared, Len(jcs))]
    IN MergePairs(Tail(pairs), graph, next, order)

\* A variant of the search below that moves on with <=: the last plan of
\* least cost.
MinCostIndex_last(plans) ==
  CHOOSE k \in 1..Len(plans) :
    /\ \A l \in 1..Len(plans) : getCostEstimate(plans[k]) <= getCostEstimate(plans[l])
    /\ \A l \in (k + 1)..Len(plans) : getCostEstimate(plans[l]) > getCostEstimate(plans[k])

\* The first plan of least cost among plans (not empty).
MinCostIndex(plans) ==
  CHOOSE k \in 1..Len(plans) :
    /\ \A l \in 1..Len(plans) : getCostEstimate(plans[k]) <= getCostEstimate(plans[l])
    /\ \A l \in 1..(k - 1) : getCostEstimate(plans[l]) > getCostEstimate(plans[k])

\* merge, the second part: of the candidates with the same pruning key only
\* the first of least cost is kept.  The keys come in the order the
\* unordered_map is iterated in: that of their insertion, or its reverse.
prune(cands, descending) ==
  LET firstOfKey == SelectSeq([k \in 1..Len(cands) |-> k],
                              LAMBDA k : \A l \in 1..(k - 1) : cands[l].key # cands[k].key)
      ofKey(key) == LET same == SelectSeq(cands, LAMBDA c : c.key = key)
                    IN [k \in 1..Len(same) |-> same[k].plan]
      pruned == [k \in 1..Len(firstOfKey) |->
                   LET plans == ofKey(cands[firstOfKey[k]].key)
                   IN plans[MinCostIndex(plans)]]
  IN IF descending THEN Reverse(pruned) ELSE pruned

merge(a, b, graph, descending) ==
  LET pairs == Flatten([i \in 1..Len(a) |-> [j \in 1..Len(b) |-> <<a[i], b[j]>>]])
      order == IF descending THEN Reverse(Variables) ELSE Variables
      done == MergePairs(pairs, graph,
                         [cands |-> <<>>, err |-> "none", shared |-> 0,
                          assertFailed |-> FALSE, sharedThen |-> 0],
                         order)
  IN [err |-> done.err, shared |-> done.shared,
      assertFailed |-> done.assertFailed, sharedThen |-> done.sharedThen,
      plans |-> IF done.err = "none" THEN prune(done.cands, descending) ELSE <<>>]

\* A variant that records the filter under the next index.
recordFilter_next(ids, i) == ids \cup {i + 1}

\* newPlan._idsOfIncludedFilters = plan._idsOfIncludedFilters; insert(i)
recordFilter(ids, i) == ids \cup {i}

\* plan._qet.varCovered(filters[i]._lhs) && plan._qet.varCovered(filters[i]._rhs)
filterApplies(p, f) ==
  varCovered(p.qet.vcm, f.lhs) /\ varCovered(p.qet.vcm, f.rhs)

\* applyFiltersIfPossible for one plan of the row: the filters from index i on.
RECURSIVE ApplyFilters(_, _, _)
ApplyFilters(p, filters, i) ==
  IF i >= Len(filters) THEN p
  ELSE LET f == filters[i + 1] IN
    IF i \notin p.idsOfIncludedFilters /\ filterApplies(p, f)
      THEN ApplyFilters(
             SubtreePlan(Filter(p.qet, getVariableColumn(p.qet.vcm, f.lhs),
                                getVariableColumn(p.qet.vcm, f.rhs)),
                         p.idsOfIncludedNodes, recordFilter(p.idsOfIncludedFilters, i)),
             filters, i + 1)
      ELSE ApplyFilters(p, filters, i + 1)

applyFiltersIfPossible(row, filters) ==
  [n \in 1..Len(row) |-> ApplyFilters(row[n], filters, 0)]

\* pureTextQuery
pureTextQuery(graph) ==
  SubtreePlan(TextOperationForContexts(graph.nodes[1].wordPart, graph.nodes[1].cvar),
              {0}, {})

\* getOrderByRow, the body of its loop for one plan of the previous row.
\* QueryExecutionTree::getVariableColumn of a variable the tree does not hold
\* is a failed check.
OrderByError(parsed, p) ==
  IF \A k \in 1..Len(parsed.orderBy) : varCovered(p.qet.vcm, parsed.orderBy[k].key)
    THEN "none" ELSE "CHECK_FAILED"

\* A variant of the loop body that sorts also a plan that is sorted already.
OrderByPlan_alwaysSort(parsed, p) ==
  IF Len(parsed.orderBy) = 1 /\ ~parsed.orderBy[1].desc
    THEN SubtreePlan(Sort(p.qet, getVariableColumn(p.qet.vcm, parsed.orderBy[1].key),
                          p.qet.ctx),
                     p.idsOfIncludedNodes, p.idsOfIncludedFilters)
    ELSE SubtreePlan(
           OrderBy(p.qet, [k \in 1..Len(parsed.orderBy) |->
                             <<getVariableColumn(p.qet.vcm, parsed.orderBy[k].key),
                               parsed.orderBy[k].desc>>]),
           p.idsOfIncludedNodes, p.idsOfIncludedFilters)

OrderByPlan(parsed, p) ==
  IF Len(parsed.orderBy) = 1 /\ ~parsed.orderBy[1].desc
    THEN LET col == getVariableColumn(p.qet.vcm, parsed.orderBy[1].key)
         IN IF col = p.qet.sortedOn THEN p
            ELSE SubtreePlan(Sort(p.qet, col, p.qet.ctx),
                             p.idsOfIncludedNodes, p.idsOfIncludedFilters)
    ELSE SubtreePlan(
           OrderBy(p.qet, [k \in 1..Len(parsed.orderBy) |->
                             <<getVariableColumn(p.qet.vcm, parsed.orderBy[k].key),
                               parsed.orderBy[k].desc>>]),
           p.idsOfIncludedNodes, p.idsOfIncludedFilters)

getOrderByRow(parsed, dpTab) ==
  LET previous == dpTab[Len(dpTab)]
  IN [i \in 1..Len(previous) |-> OrderByPlan(parsed, previous[i])]

\* atol: optional sign, then the leading digits.
Digits == <<"0", "1", "2", "3", "4", "5", "6", "7", "8", "9">>

DigitValue(c) == (CHOOSE d \in 1..Len(Digits) : Digits[d] = c) - 1

RECURSIVE LeadingNumber(_, _)
LeadingNumber(str, acc) ==
  IF str = <<>> \/ Head(str) \notin Range(Digits) THEN acc
  ELSE LeadingNumber(Tail(str), 10 * acc + DigitValue(Head(str)))

atol(str) ==
  IF str # <<>> /\ Head(str) = "-" THEN 0 - LeadingNumber(Tail(str), 0)
  ELSE IF str # <<>> /\ Head(str) = "+" THEN LeadingNumber(Tail(str), 0)
  ELSE LeadingNumber(str, 0)

\* getTextLimit
getTextLimit(textLimitString) ==
  IF Len(textLimitString) = 0 THEN 1 ELSE SizeT(atol(textLimitString))

(***************************************************************************)
(* createExecutionTree, step by step.                                      *)
(***************************************************************************)
NoPlan == [qet |-> EmptyTree, textLimit |-> <<>>]

IdlePq ==
  [triples |-> <<>>, filters |-> <<>>, orderBy |-> <<>>, distinct |-> FALSE,
   selectedVariables |-> <<>>, textLimit |-> <<>>]

PlannerIdle ==
  /\ pq = IdlePq
  /\ ppc = "idle"
  /\ tg = EmptyGraph
  /\ finalTab = <<>>
  /\ mergeK = 0
  /\ mergeI = 0
  /\ plan = NoPlan
  /\ perr = "none"
  /\ maxShared = 0

\* An exception leaves createExecutionTree.
Throw(kind) ==
  /\ ppc' = "error"
  /\ perr' = kind
  /\ UNCHANGED <<pq, tg, finalTab, mergeK, mergeI, plan, maxShared>>

\* createTripleGraph and collapseTextCliques.
CreateGraph ==
  /\ ppc = "start"
  /\ LET graph == createTripleGraph(pq) IN
       IF identifyTextCliquesError(graph) # "none"
         THEN Throw(identifyTextCliquesError(graph))
         ELSE /\ \E descending \in BOOLEAN : tg' = collapseTextCliques(graph, descending)
              /\ ppc' = "graph"
              /\ UNCHANGED <<pq, finalTab, mergeK, mergeI, plan, perr, maxShared>>

\* The pure text query: no DP table is filled.
PureTextQuery ==
  /\ ppc = "graph"
  /\ isPureTextQuery(tg)
  /\ finalTab' = << <<pureTextQuery(tg)>> >>
  /\ ppc' = "post"
  /\ UNCHANGED <<pq, tg, mergeK, mergeI, plan, perr, maxShared>>

\* fillDpTab, up to its loop: the first row of the table.
Seed ==
  /\ ppc = "graph"
  /\ ~isPureTextQuery(tg)
  /\ IF seedError(tg) # "none"
       THEN Throw(seedError(tg))
       ELSE /\ finalTab' = <<applyFiltersIfPossible(seedWithScansAndText(tg), pq.filters)>>
            /\ mergeK' = 2
            /\ mergeI' = 1
            /\ ppc' = IF 2 <= Len(tg.nodes) THEN "merge" ELSE "post"
            /\ UNCHANGED <<pq, tg, plan, perr, maxShared>>

\* fillDpTab, one iteration of its inner loop:
\* merge(dpTab[i - 1], dpTab[k - i - 1]), the insertion of the new plans into
\* row k and applyFiltersIfPossible on that row.
Merge ==
  /\ ppc = "merge"
  /\ \E descending \in BOOLEAN :
       LET merged == merge(finalTab[mergeI], finalTab[mergeK - mergeI], tg, descending)
           rowK == (IF Len(finalTab) >= mergeK THEN finalTab[mergeK] ELSE <<>>)
                     \o merged.plans
           newRow == applyFiltersIfPossible(rowK, pq.filters)
           lastOfK == mergeI + 1 > mergeK \div 2
       IN \E asserts \in (IF merged.assertFailed THEN BOOLEAN ELSE {FALSE}) :
          IF asserts
            THEN /\ maxShared' = Max(maxShared, merged.sharedThen)
                 /\ ppc' = "error"
                 /\ perr' = "ASSERT_FAILED"
                 /\ UNCHANGED <<finalTab, mergeK, mergeI>>
          ELSE
          /\ maxShared' = Max(maxShared, merged.shared)
          /\ IF merged.err # "none"
               THEN /\ ppc' = "error"
                    /\ perr' = merged.err
                    /\ UNCHANGED <<finalTab, mergeK, mergeI>>
               ELSE /\ finalTab' = IF Len(finalTab) >= mergeK
                                     THEN [finalTab EXCEPT ![mergeK] = newRow]
                                     ELSE Append(finalTab, newRow)
                    /\ mergeK' = IF lastOfK THEN mergeK + 1 ELSE mergeK
                    /\ mergeI' = IF lastOfK THEN 1 ELSE mergeI + 1
                    /\ ppc' = IF lastOfK /\ mergeK + 1 > Len(tg.nodes) THEN "post" ELSE "merge"
                    /\ perr' = perr
  /\ UNCHANGED <<pq, tg, plan>>

\* The row for ORDER BY.
OrderByRow ==
  /\ ppc = "post"
  /\ Len(pq.orderBy) > 0
  /\ LET lastRow == finalTab[Len(finalTab)] IN
       IF \E i \in 1..Len(lastRow) : OrderByError(pq, lastRow[i]) # "none"
         THEN Throw("CHECK_FAILED")
         ELSE /\ finalTab' = Append(finalTab, getOrderByRow(pq, finalTab))
              /\ ppc' = "select"
              /\ UNCHANGED <<pq, tg, mergeK, mergeI, plan, perr, maxShared>>

\* createExecutionTree from the last row on: the choice of the plan of least
\* cost, DISTINCT, the text limit.
selectPlan(parsed, lastRow) ==
  LET best == lastRow[MinCostIndex(lastRow)].qet
      selected == SelectSeq(parsed.selectedVariables, LAMBDA v : varCovered(best.vcm, v))
      keepIndices == [k \in 1..Len(selected) |-> getVariableColumn(best.vcm, selected[k])]
  IN IF parsed.distinct
       THEN [qet |-> Distinct(best, keepIndices), textLimit |-> <<>>]
       ELSE [qet |-> best, textLimit |-> <<getTextLimit(parsed.textLimit)>>]

\* The choice of the plan of least cost in the last row, DISTINCT, the text limit.
Select ==
  /\ \/ ppc = "select"
     \/ ppc = "post" /\ Len(pq.orderBy) = 0
  /\ LET lastRow == finalTab[Len(finalTab)] IN
       IF Len(lastRow) = 0
         THEN Throw("CHECK_FAILED")
         ELSE /\ plan' = selectPlan(pq, lastRow)
              /\ ppc' = "done"
              /\ UNCHANGED <<pq, tg, finalTab, mergeK, mergeI, perr, maxShared>>

(***************************************************************************)
(* createExecutionTree as a function of the query, for one iteration order *)
(* of the unordered containers (ascending or descending throughout) and    *)
(* with the asserts compiled out.                                          *)
(***************************************************************************)
\* fillDpTab, its loops from (k, i) on.
RECURSIVE fillDpTabFrom(_, _, _, _, _, _)
fillDpTabFrom(dpTab, k, i, graph, filters, descending) ==
  IF k > Len(graph.nodes) THEN [err |-> "none", dpTab |-> dpTab]
  ELSE
    LET merged == merge(dpTab[i], dpTab[k - i], graph, descending)
        rowK == (IF Len(dpTab) >= k THEN dpTab[k] ELSE <<>>) \o merged.plans
        newRow == applyFiltersIfPossible(rowK, filters)
        newTab == IF Len(dpTab) >= k THEN [dpTab EXCEPT ![k] = newRow]
                  ELSE Append(dpTab, newRow)
        lastOfK == i + 1 > k \div 2
    IN IF merged.err # "none" THEN [err |-> merged.err, dpTab |-> dpTab]
       ELSE fillDpTabFrom(newTab, IF lastOfK THEN k + 1 ELSE k,
                          IF lastOfK THEN 1 ELSE i + 1, graph, filters, descending)

fillDpTab(graph, filters, descending) ==
  IF seedError(graph) # "none" THEN [err |-> seedError(graph), dpTab |-> <<>>]
  ELSE fillDpTabFrom(<<applyFiltersIfPossible(seedWithScansAndText(graph), filters)>>,
                     2, 1, graph, filters, descending)

createExecutionTree(parsed, descending) ==
  LET graph == createTripleGraph(parsed)
      collapsed == collapseTextCliques(graph, descending)
      filled == IF isPureTextQuery(collapsed)
                  THEN [err |-> "none", dpTab |-> << <<pureTextQuery(collapsed)>> >>]
                  ELSE fillDpTab(collapsed, parsed.filters, descending)
      lastRow == filled.dpTab[Len(filled.dpTab)]
      orderByFails == /\ Len(parsed.orderBy) > 0
                      /\ \E n \in 1..Len(lastRow) : OrderByError(parsed, lastRow[n]) # "none"
      finalRow == IF Len(parsed.orderBy) > 0 THEN getOrderByRow(parsed, filled.dpTab)
                  ELSE lastRow
  IN IF identifyTextCliquesError(graph) # "none"
       THEN [err |-> identifyTextCliquesError(graph), tree |-> NoPlan]
     ELSE IF filled.err # "none" THEN [err |-> filled.err, tree |-> NoPlan]
     ELSE IF orderByFails \/ Len(finalRow) = 0 THEN [err |-> "CHECK_FAILED", tree |-> NoPlan]
     ELSE [err |-> "none", tree |-> selectPlan(parsed, finalRow)]

(***************************************************************************)
(* BlankNodeManager and its LocalBlankNodeManagers.  The class itself is   *)
(* not part of the sources at hand; this is what its unit tests            *)
(* (src/test/BlankNodeManagerTest.cpp) construct, call and expect.  A      *)
(* block is its index in the manager's set and the next id to hand out;    *)
(* the ids of block b are minIndex_ + b * blockSize_ and the blockSize_ - 1 *)
(* ids after it.                                                           *)
(***************************************************************************)
blockSize_ == 2
minIndex_ == 0

Locals == 1..MaxLocals

Block(blockIdx, startIdx) == [blockIdx |-> blockIdx, nextIdx |-> startIdx]

startIdxOf(block) == minIndex_ + block.blockIdx * blockSize_

\* All ids of the block are used: nextIdx_ is the first id behind the block.
allIdsUsed(block) == block.nextIdx = startIdxOf(block) + blockSize_

blockIdxsOf(bl) == {bl[k].blockIdx : k \in 1..Len(bl)}

\* LocalBlankNodeManager::getId allocates a block if no blocks are allocated
\* yet or the ids of the last block are all used.
needsNewBlock(bl) == bl = <<>> \/ allIdsUsed(bl[Len(bl)])

\* A variant of the destructor that frees the last block only.
freeBlocks_lastOnly(used, bl) ==
  IF bl = <<>> THEN used ELSE used \ {bl[Len(bl)].blockIdx}

\* ~LocalBlankNodeManager: its blocks are removed from the set.
freeBlocks(used, bl) == used \ blockIdxsOf(bl)

\* BlankNodeManager::LocalBlankNodeManager lbnm(&bnm)
NewLocal(l) ==
  /\ ~alive[l]
  /\ alive' = [alive EXCEPT ![l] = TRUE]
  /\ blocks' = [blocks EXCEPT ![l] = <<>>]
  /\ UNCHANGED <<usedBlocksSet, lastId>>

\* lbnm.getId(), with BlankNodeManager::allocateBlock picking an index that
\* is not in use.
GetId(l) ==
  /\ alive[l]
  /\ IF needsNewBlock(blocks[l])
       THEN \E blockIdx \in (0..MaxBlockIdx) \ usedBlocksSet :
              LET block == Block(blockIdx, minIndex_ + blockIdx * blockSize_)
              IN /\ usedBlocksSet' = usedBlocksSet \cup {blockIdx}
                 /\ lastId' = <<block.nextIdx>>
                 /\ blocks' = [blocks EXCEPT ![l] =
                                  Append(@, [block EXCEPT !.nextIdx = @ + 1])]
       ELSE /\ lastId' = <<blocks[l][Len(blocks[l])].nextIdx>>
            /\ blocks' = [blocks EXCEPT ![l][Len(blocks[l])].nextIdx = @ + 1]
            /\ UNCHANGED usedBlocksSet
  /\ UNCHANGED alive

\* The LocalBlankNodeManager goes out of scope.
DestroyLocal(l) ==
  /\ alive[l]
  /\ usedBlocksSet' = freeBlocks(usedBlocksSet, blocks[l])
  /\ alive' = [alive EXCEPT ![l] = FALSE]
  /\ blocks' = [blocks EXCEPT ![l] = <<>>]
  /\ UNCHANGED lastId

\* BlankNodeManager bnm(0), and no LocalBlankNodeManager yet.
BlankNodeIdle ==
  /\ usedBlocksSet = {}
  /\ alive = [l \in Locals |-> FALSE]
  /\ blocks = [l \in Locals |-> <<>>]
  /\ lastId = <<>>

tcVars == <<tc, tcInput, tcThrown, tcOps>>
bnVars == <<usedBlocksSet, alive, blocks, lastId>>

(***************************************************************************)
(* TripleComponent.                                                        *)
(* The class is not part of the sources at hand; this is what its unit     *)
(* tests (src/test/TripleComponentTest.cpp) construct, assign and expect.  *)
(* A value is its alternative of the variant and its content: the          *)
(* characters of a string or of the name of a Variable (text), or the      *)
(* number of an int and the number of thousandths of a double (number).    *)
(***************************************************************************)
TcUnset == [kind |-> "unset", text |-> <<>>, number |-> 0]

TcString(text) == [kind |-> "string", text |-> text, number |-> 0]
TcDouble(number) == [kind |-> "double", text |-> <<>>, number |-> number]
TcInt(number) == [kind |-> "int", text |-> <<>>, number |-> number]
TcVariable(text) == [kind |-> "variable", text |-> text, number |-> 0]

\* What the tests construct a TripleComponent from and assign to it.
TcInputs ==
  {TcString(v) : v \in {<<"<", "a", ">">>, <<"\"", "a", "\"">>, <<"a">>,
                                  <<"a", "?">>, <<>>, <<"?", "x">>, <<"?", "y">>}}
    \cup {TcDouble(v) : v \in {-12435, 83120, 483}}
    \cup {TcInt(v) : v \in {-42, 42, 483}}
    \cup {TcVariable(v) : v \in {<<"?", "x">>, <<"?", "a">>}}

isString(t) == t.kind = "string"
isDouble(t) == t.kind = "double"
isInt(t) == t.kind = "int"
isVariableComponent(t) == t.kind = "variable"

getString(t) == t.text
getDouble(t) == t.number
getInt(t) == t.number
getVariable(t) == t.text

\* A variant of the check below that lets every string pass.
isIllegalString_never(input) == FALSE

\* Storing a variable as a string is illegal: the string starts with '?'.
isIllegalString(input) == isString(input) /\ starts_with(input.text, <<"?">>)

\* TripleComponent t{input}: a new object; none when the constructor throws.
ConstructTc(input) ==
  /\ tcOps < MaxOps
  /\ tcInput' = input
  /\ tcOps' = tcOps + 1
  /\ tcThrown' = isIllegalString(input)
  /\ tc' = IF isIllegalString(input) THEN TcUnset ELSE input

\* object = input.  The tests do not say what the object holds after an
\* assignment that threw: its former value or the string.
AssignTc(input) ==
  /\ tcOps < MaxOps
  /\ tcInput' = input
  /\ tcOps' = tcOps + 1
  /\ tcThrown' = isIllegalString(input)
  /\ tc' \in (IF isIllegalString(input) THEN {tc, input} ELSE {input})

TripleComponentIdle ==
  /\ tc = TcUnset
  /\ tcInput = TcUnset
  /\ tcThrown = FALSE
  /\ tcOps = 0

(***************************************************************************)
(* TripleGraph::splitAtContextVars, called on a graph of createTripleGraph *)
(* with the map of its identifyTextCliques.                                *)
(***************************************************************************)
splitVars == <<splitIn, splitOut, spc>>

NoSplit == [graph |-> EmptyGraph, filters |-> <<>>, contextVarToTextNodes |-> <<>>]

SplitIdle ==
  /\ splitIn = NoSplit
  /\ splitOut = <<>>
  /\ spc = "idle"

\* The call returns; a build with asserts ends at a false assert.
SplitAtContextVars ==
  /\ spc = "call"
  /\ LET res == splitAtContextVars(splitIn.graph, splitIn.filters,
                                   splitIn.contextVarToTextNodes)
     IN \E asserts \in (IF res.assertFailed THEN BOOLEAN ELSE {FALSE}) :
          IF asserts
            THEN spc' = "aborted" /\ splitOut' = <<>>
            ELSE spc' = "returned" /\ splitOut' = res.retVal
  /\ UNCHANGED splitIn

(***************************************************************************)
(* LazyJsonParser.  A text is a sequence of characters.  The parser keeps  *)
(* the text it has not returned yet (input_) and where it stands in the    *)
(* structure of the document; parseChunk appends a chunk, goes through its *)
(* characters and returns the front of input_ that is complete.  The       *)
(* members' initial values and isInArrayPath are those of the class        *)
(* declaration, which is not part of the sources at hand.                  *)
(***************************************************************************)
Quote == "\""
Backslash == "\\"

\* std::string::substr(pos, count) for pos <= size; count may pass the end.
substrOf(str, startIdx, count) ==
  SubSeq(str, startIdx + 1, Min(Len(str), startIdx + count))

\* The constructor: prefixInArray_ and suffixInArray_.
prefixInArray(arrayPath) ==
  Flatten([k \in 1..Len(arrayPath) |->
             <<"{", Quote>> \o arrayPath[k] \o <<Quote, ":", " ">>]) \o <<"[">>

suffixInArray(arrayPath) == <<"]">> \o [k \in 1..Len(arrayPath) |-> "}"]

NewParser(arrayPath) ==
  [input |-> <<>>, arrayPath |-> arrayPath, curPath |-> <<>>,
   isEscaped |-> FALSE, inString |-> FALSE, inArrayPath |-> FALSE,
   openBracesInArrayPath |-> 0, openBrackets |-> 0, yieldCount |-> 0,
   strStart |-> -1, strEnd |-> -1, thrown |-> FALSE]

isInArrayPath(p) == p.curPath = p.arrayPath

pop_back(path) == SubSeq(path, 1, Len(path) - 1)

\* parseString(idx): the parser and idx when it returns.
RECURSIVE parseString(_, _)
parseString(p, idx) ==
  IF idx >= Len(p.input) THEN [p |-> p, idx |-> idx]
  ELSE IF p.isEscaped THEN parseString([p EXCEPT !.isEscaped = FALSE], idx + 1)
  ELSE IF p.input[idx + 1] = Quote
    THEN IF ~p.inString
           THEN parseString([p EXCEPT !.inString = TRUE, !.strStart = idx + 1], idx + 1)
           ELSE [p |-> [p EXCEPT !.inString = FALSE, !.strEnd = idx], idx |-> idx]
  ELSE IF p.input[idx + 1] = Backslash
    THEN parseString([p EXCEPT !.isEscaped = TRUE], idx + 1)
  ELSE parseString(p, idx + 1)

\* parseArrayPath(idx): the parser, idx and the value returned.
RECURSIVE parseArrayPathFrom(_, _, _)
parseArrayPathFrom(p, idx, lastObjectEnd) ==
  IF idx >= Len(p.input) THEN [p |-> p, idx |-> idx, ret |-> lastObjectEnd]
  ELSE LET c == p.input[idx + 1] IN
    CASE c = "{" ->
           parseArrayPathFrom([p EXCEPT !.openBracesInArrayPath = @ + 1], idx + 1, lastObjectEnd)
      [] c = "[" ->
           IF p.inArrayPath
             THEN parseArrayPathFrom([p EXCEPT !.openBracesInArrayPath = @ + 1],
                                     idx + 1, lastObjectEnd)
             ELSE parseArrayPathFrom([p EXCEPT !.inArrayPath = TRUE], idx + 1, lastObjectEnd)
      [] c = "}" ->
           parseArrayPathFrom([p EXCEPT !.openBracesInArrayPath = @ - 1], idx + 1, lastObjectEnd)
      [] c = "]" ->
           IF p.openBracesInArrayPath = 0
             THEN [p |-> [p EXCEPT !.inArrayPath = FALSE,
                                   !.curPath = IF @ # <<>> THEN pop_back(@) ELSE @],
                   idx |-> idx, ret |-> lastObjectEnd]
             ELSE parseArrayPathFrom([p EXCEPT !.openBracesInArrayPath = @ - 1],
                                     idx + 1, lastObjectEnd)
      [] c = "," ->
           parseArrayPathFrom(p, idx + 1,
                              IF p.openBracesInArrayPath = 0 THEN idx ELSE lastObjectEnd)
      [] c = Quote ->
           LET s == parseString(p, idx)
           IN parseArrayPathFrom(s.p, s.idx + 1, lastObjectEnd)
      [] OTHER -> parseArrayPathFrom(p, idx + 1, lastObjectEnd)

parseArrayPath(p, idx) == parseArrayPathFrom(p, idx, -1)

\* curPath_.emplace_back(input_.substr(strStart_, strEnd_ - strStart_)):
\* substr throws std::out_of_range when strStart_ is behind the end of input_,
\* and a negative count, converted to size_t, takes the rest of input_.
pushKey(p) ==
  LET count == IF p.strEnd < p.strStart THEN Len(p.input) ELSE p.strEnd - p.strStart
  IN IF p.strStart > Len(p.input) THEN [p EXCEPT !.thrown = TRUE]
     ELSE [p EXCEPT !.curPath = Append(@, substrOf(p.input, p.strStart, count))]

\* parseChunk, its loop over the characters outside the array: the parser
\* and materializeEnd at its end.
RECURSIVE parseOutside(_, _, _)
parseOutside(p, idx, materializeEnd) ==
  IF p.thrown \/ idx >= Len(p.input) THEN [p |-> p, materializeEnd |-> materializeEnd]
  ELSE LET c == p.input[idx + 1] IN
    CASE c = "{" ->
           parseOutside(IF p.strStart # -1 /\ p.strEnd # -1 THEN pushKey(p) ELSE p,
                        idx + 1, materializeEnd)
      [] c = "[" ->
           LET keyed == IF p.openBrackets = 0 /\ p.strStart # -1 /\ p.strEnd # -1
                          THEN pushKey(p) ELSE p
               opened == [keyed EXCEPT !.openBrackets = @ + 1]
               a == parseArrayPath(opened, idx)
           IN IF keyed.thrown THEN [p |-> keyed, materializeEnd |-> materializeEnd]
              ELSE IF isInArrayPath(opened) THEN parseOutside(a.p, a.idx + 1, a.ret)
              ELSE parseOutside(opened, idx + 1, materializeEnd)
      [] c = "]" ->
           LET closed == [p EXCEPT !.openBrackets = @ - 1]
               popped == [closed EXCEPT !.curPath = pop_back(@)]
           IN IF closed.openBrackets = 0 /\ closed.curPath # <<>>
                THEN parseOutside([popped EXCEPT !.inArrayPath = isInArrayPath(popped)],
                                  idx + 1, materializeEnd)
                ELSE parseOutside(closed, idx + 1, materializeEnd)
      [] c = "}" ->
           IF p.curPath = <<>> THEN parseOutside(p, idx + 1, idx + 1)
           ELSE parseOutside([p EXCEPT !.curPath = pop_back(@)], idx + 1, materializeEnd)
      [] c = Quote ->
           LET s == parseString(p, idx) IN parseOutside(s.p, s.idx + 1, materializeEnd)
      [] OTHER -> parseOutside(p, idx + 1, materializeEnd)

\* parseChunk: the parser after the call and the string returned.
parseChunk(p0, inStr) ==
  LET idx0 == Len(p0.input)
      p1 == [p0 EXCEPT !.input = @ \o inStr]
      s == IF p1.inString THEN parseString(p1, idx0) ELSE [p |-> p1, idx |-> idx0 - 1]
      a == IF s.p.inArrayPath THEN parseArrayPath(s.p, s.idx + 1)
           ELSE [p |-> s.p, idx |-> s.idx, ret |-> -1]
      o == parseOutside(a.p, a.idx + 1, a.ret)
      p == o.p
      materializeEnd == o.materializeEnd
      res == (IF p.yieldCount > 0 THEN prefixInArray(p.arrayPath) ELSE <<>>)
               \o substrOf(p.input, 0, materializeEnd)
               \o (IF p.inArrayPath THEN suffixInArray(p.arrayPath) ELSE <<>>)
  IN IF p.thrown THEN [p |-> p, res |-> <<>>]
     ELSE IF materializeEnd = -1 THEN [p |-> p, res |-> <<>>]
     ELSE [p |-> [p EXCEPT !.yieldCount = @ + 1,
                           !.input = IF materializeEnd < Len(@)
                                       THEN SubSeq(@, materializeEnd + 2, Len(@))
                                       ELSE <<>>],
           res |-> res]

ljVars == <<ljDocument, ljFed, ljParser, ljResults>>

NoDocument == [head |-> <<>>, elements |-> <<>>, tail |-> <<>>, arrayPath |-> <<>>]

LazyJsonIdle ==
  /\ ljDocument = NoDocument
  /\ ljFed = 0
  /\ ljParser = NewParser(<<>>)
  /\ ljResults = <<>>

\* The text of a document: its head up to the opening bracket of the array,
\* the elements of the array with commas between them, and its tail from the
\* closing bracket on.
JoinElements(elements) ==
  Flatten([k \in 1..Len(elements) |->
             IF k = 1 THEN elements[k] ELSE <<",">> \o elements[k]])

TextOf(document) == document.head \o JoinElements(document.elements) \o document.tail

\* One call of parseChunk with the next n characters of the document.  An
\* exception leaves the call without a result.
ParseChunk(n) ==
  /\ ~ljParser.thrown
  /\ ljFed + n <= Len(TextOf(ljDocument))
  /\ LET r == parseChunk(ljParser, SubSeq(TextOf(ljDocument), ljFed + 1, ljFed + n))
     IN /\ ljParser' = r.p
        /\ ljResults' = IF r.p.thrown THEN ljResults
                        ELSE Append(ljResults, [res |-> r.res, inArrayPath |-> r.p.inArrayPath])
  /\ ljFed' = ljFed + n
  /\ UNCHANGED ljDocument

UtilIdle == BlankNodeIdle /\ TripleComponentIdle /\ SplitIdle /\ LazyJsonIdle

(***************************************************************************)
(* LIMIT / OFFSET.  The clause itself is not part of the sources at hand;  *)
(* the exporter only uses actualOffset and upperBound.  limit = NoLimit    *)
(* stands for an unset LIMIT.                                              *)
(***************************************************************************)
NoLimit == -1

actualOffset(lo, n) == Min(n, lo.offset)

upperBound(lo, n) ==
  IF lo.limit = NoLimit THEN n ELSE Min(lo.offset + lo.limit, n)

\* A variant of getRowIndices that forgets the offset: iota(0, upperBound).
getRowIndices_fromZero(lo, n) == [k \in 1..upperBound(lo, n) |-> k - 1]

\* std::views::iota(actualOffset, upperBound) as the sequence of its elements.
getRowIndices(lo, n) ==
  [k \in 1..(upperBound(lo, n) - actualOffset(lo, n)) |-> actualOffset(lo, n) + k - 1]

(***************************************************************************)
(* The export request.  A selected variable is "val" when it is bound in   *)
(* the tree and its identifiers resolve to a string, "none" when it is     *)
(* bound and its identifiers resolve to none (Undefined), "unbound" when   *)
(* selectedVariablesToColumnIndices gives no column for it.                *)
(***************************************************************************)
ColKinds == {"val", "none", "unbound"}

EntryPoints ==
  ({"stream"} \X {"csv", "tsv", "octetStream", "turtle", "sparqlXml", "sparqlJson"})
    \cup ({"json"} \X {"qleverJson", "sparqlJson", "csv"})
    \cup ({"qleverStream"} \X {"qleverJson"})

LimitOffsets ==
  [limit : {NoLimit} \cup (0..MaxLimit), offset : 0..MaxOffset]

SelectQueries ==
  {[entry |-> e[1], mediaType |-> e[2], isSelect |-> TRUE, n |-> n, lo |-> lo,
    cols |-> c, ntemplate |-> 0] :
     e \in EntryPoints, n \in 0..MaxRows, lo \in LimitOffsets,
     c \in SeqsUpTo(ColKinds, MaxCols)}

ConstructQueries ==
  {[entry |-> e[1], mediaType |-> e[2], isSelect |-> FALSE, n |-> n, lo |-> lo,
    cols |-> <<>>, ntemplate |-> t] :
     e \in EntryPoints, n \in 0..MaxRows, lo \in LimitOffsets, t \in 1..MaxTemplate}

IdleQuery ==
  [entry |-> "none", mediaType |-> "none", isSelect |-> TRUE, n |-> 0,
   lo |-> [limit |-> NoLimit, offset |-> 0], cols |-> <<>>, ntemplate |-> 0]

\* The row indices the loops of the exporter run over.
RowRange == getRowIndices(query.lo, query.n)

\* `columns` after std::erase(columns, std::nullopt)
BoundColumns(cols) == SelectSeq(cols, LAMBDA c : c # "unbound")

(***************************************************************************)
(* The chunks of the streaming SELECT exports.  A token <<kind, row>>      *)
(* stands for one co_yield; row = -1 for the preamble and the suffix (the   *)
(* resultsize of the tool-JSON suffix carries its value as a third field). *)
(***************************************************************************)
\* absl::StrJoin(variables, separator), then '\n'
CsvHeader(cols) ==
  Flatten([j \in 1..Len(cols) |->
             IF j < Len(cols) THEN << <<"name", -1>>, <<"sep", -1>> >>
                              ELSE << <<"name", -1>> >>])
    \o << <<"nl", -1>> >>

\* The body of the row loop of the CSV / TSV export.
CsvRow(cols, i) ==
  Flatten([j \in 1..Len(cols) |->
             (IF cols[j] = "val" THEN << <<"cell", i>> >> ELSE <<>>)
               \o << IF j < Len(cols) THEN <<"sep", i>> ELSE <<"nl", i>> >>])

\* The body of the row loop of the binary export: sizeof(Id) bytes per bound column.
OctetRow(cols, i) ==
  Flatten([j \in 1..Len(cols) |->
             IF cols[j] # "unbound" THEN << <<"id", i>> >> ELSE <<>>])

XmlHeader(cols) ==
  << <<"xmlhead", -1>> >> \o [j \in 1..Len(cols) |-> <<"variable", -1>>]
    \o << <<"endhead", -1>>, <<"results", -1>> >>

\* idToXMLBinding returns the empty string when the identifier resolves to none.
XmlRow(cols, i) ==
  << <<"result", i>> >>
    \o Flatten([j \in 1..Len(cols) |->
                  IF cols[j] = "val" THEN << <<"binding", i>> >> ELSE <<>>])
    \o << <<"endresult", i>> >>

\* co_yield absl::StrCat(i == 0 ? "" : ",", binding.dump())
SparqlJsonRow(i) ==
  (IF i = 0 THEN <<>> ELSE << <<"comma", i>> >>) \o << <<"bind", i>> >>

\* computeResultAsQLeverJSONStream: if (resultSize > 0) co_yield ","; co_yield b;
QleverStreamRow(count, i) ==
  (IF count > 0 THEN << <<"comma", i>> >> ELSE <<>>) \o << <<"row", i>> >>

\* nlohmann::json::dump of an array: the elements separated by commas.
DumpArray(elems) ==
  Flatten([j \in 1..Len(elems) |->
             IF j = 1 THEN << elems[j] >> ELSE << <<"comma", elems[j][2]>>, elems[j] >>])

Materialised == query.entry = "json"

\* The catch blocks of the entry points: computeResultAsStream and
\* computeResultAsJSON tag a CancellationException, computeResultAsQLeverJSONStream
\* has no handler.
OperationTag(entry) ==
  CASE entry = "stream" -> "Stream query export"
    [] entry = "json" -> "Query export"
    [] OTHER -> ""

\* An exception other than a cancellation leaves the entry point untagged.
Raise(kind) ==
  /\ pc' = "error"
  /\ err' = kind
  /\ UNCHANGED <<operation, out>>

\* cancellationHandle->throwIfCancelled() at the end of a loop body; `emitted`
\* are the chunks the body has yielded, `next` what happens if it does not throw.
ThrowIfCancelled(emitted, next) ==
  IF cancel
    THEN /\ pc' = "error"
         /\ err' = "cancelled"
         /\ operation' = OperationTag(query.entry)
         /\ out' = out \o emitted
         /\ UNCHANGED <<pos, tpos>>
    ELSE /\ out' = out \o emitted
         /\ UNCHANGED <<pc, err, operation>>
         /\ next

(***************************************************************************)
(* The entry points.  ExportBegin is the first resumption of the           *)
(* generator (or the call, for the materialised export): the dispatch on   *)
(* media type and query kind, the refusals, and the preamble.              *)
(***************************************************************************)
\* What the export yields before its row loop.
Preamble(q) ==
  CASE q.entry = "stream" /\ q.isSelect /\ q.mediaType \in {"csv", "tsv"} -> CsvHeader(q.cols)
    [] q.entry = "stream" /\ q.isSelect /\ q.mediaType = "sparqlXml" -> XmlHeader(q.cols)
    [] q.entry = "stream" /\ q.isSelect /\ q.mediaType = "sparqlJson" -> << <<"jsonhead", -1>> >>
    [] q.entry = "qleverStream" -> << <<"qleverhead", -1>> >>
    [] OTHER -> <<>>

\* ConstexprSwitch over the media type, selectQueryResultToStream<format> and
\* constructQueryResultToStream<format>; computeResultAsJSON's switch.
\* The result is the exception thrown before any row is looked at, or "none".
Refusal(q) ==
  CASE q.entry = "stream" /\ q.isSelect /\ q.mediaType = "turtle" -> "contract"
    [] q.entry = "stream" /\ ~q.isSelect /\ q.mediaType \in {"octetStream", "sparqlXml"} -> "refused"
    [] q.entry = "json" /\ q.mediaType = "sparqlJson" /\ ~q.isSelect -> "refused"
    [] q.entry = "json" /\ q.mediaType \notin {"qleverJson", "sparqlJson"} -> "fail"
    [] OTHER -> "none"

\* if (columns.empty()) of the two SPARQL-JSON SELECT exports.
NoColumns(q) ==
  /\ q.isSelect
  /\ q.mediaType = "sparqlJson"
  /\ BoundColumns(q.cols) = <<>>

ExportBegin ==
  /\ pc = "start"
  /\ UNCHANGED <<query, cancel, cancelAt, rows, nres, doc, pos, tpos, bindingVars, plannerVars, utilVars>>
  /\ IF Refusal(query) # "none"
       THEN Raise(Refusal(query))
       ELSE /\ UNCHANGED <<err, operation>>
            /\ IF NoColumns(query)
                 THEN /\ out' = << <<"jsonhead", -1>>, <<"jsonend", -1>> >>
                      /\ pc' = "done"
                 ELSE /\ out' = Preamble(query)
                      /\ pc' = "rows"

\* What the body of the SELECT row loop yields for row i.
SelectRowChunks(q, i, count) ==
  CASE q.entry = "stream" /\ q.mediaType \in {"csv", "tsv"} -> CsvRow(q.cols, i)
    [] q.entry = "stream" /\ q.mediaType = "octetStream" -> OctetRow(q.cols, i)
    [] q.entry = "stream" /\ q.mediaType = "sparqlXml" -> XmlRow(q.cols, i)
    [] q.entry = "stream" /\ q.mediaType = "sparqlJson" -> SparqlJsonRow(i)
    [] q.entry = "qleverStream" -> QleverStreamRow(count, i)
    [] OTHER -> <<>>

\* The element a materialised export appends to its JSON array for row i.
RowElement(q, i) ==
  IF q.mediaType = "sparqlJson" THEN <<"bind", i>> ELSE <<"row", i>>

\* One iteration of the row loop of a SELECT export: the row is rendered and
\* yielded, then the cancellation handle is polled.
SelectRow ==
  /\ pc = "rows"
  /\ query.isSelect
  /\ pos <= Len(RowRange)
  /\ LET i == RowRange[pos] IN
       /\ rows' = Append(rows, i)
       /\ doc' = IF Materialised THEN Append(doc, RowElement(query, i)) ELSE doc
       /\ nres' = IF query.entry = "qleverStream" THEN nres + 1 ELSE nres
       /\ ThrowIfCancelled(SelectRowChunks(query, i, nres),
                           pos' = pos + 1 /\ tpos' = tpos)
  /\ UNCHANGED <<query, cancel, cancelAt, bindingVars, plannerVars, utilVars>>

\* What a CONSTRUCT export yields for one generated triple of row i.
TripleChunks(q, i, count) ==
  CASE q.entry = "stream" -> << <<"triple", i>> >>
    [] q.entry = "qleverStream" -> QleverStreamRow(count, i)
    [] OTHER -> <<>>

\* constructQueryResultToTriples: one iteration of the loop over the template
\* triples of row i.  A triple with an unevaluable component is skipped
\* (continue); otherwise it is yielded, and then the handle is polled.
ConstructTriple ==
  /\ pc = "rows"
  /\ ~query.isSelect
  /\ pos <= Len(RowRange)
  /\ \E hasValue \in BOOLEAN :
       LET i == RowRange[pos]
           advance == IF tpos < query.ntemplate
                        THEN pos' = pos /\ tpos' = tpos + 1
                        ELSE pos' = pos + 1 /\ tpos' = 1
       IN /\ rows' = IF tpos = 1 THEN Append(rows, i) ELSE rows
          /\ IF hasValue
               THEN /\ doc' = IF Materialised THEN Append(doc, <<"row", i>>) ELSE doc
                    /\ nres' = IF query.entry = "qleverStream" THEN nres + 1 ELSE nres
                    /\ ThrowIfCancelled(TripleChunks(query, i, nres), advance)
               ELSE /\ UNCHANGED <<doc, nres, out, pc, err, operation>>
                    /\ advance
  /\ UNCHANGED <<query, cancel, cancelAt, bindingVars, plannerVars, utilVars>>

\* computeQueryResultAsQLeverJSON: the document, as the chunks of its dump.
\* resultsize is result->idTable().size() for SELECT and j["res"].size() for
\* CONSTRUCT.
QleverJsonDocument(q, res) ==
  << <<"qleverhead", -1>> >> \o DumpArray(res)
    \o << <<"resultsize", -1, IF q.isSelect THEN q.n ELSE Len(res)>> >>

\* What the export yields after its row loop; a materialised export returns
\* its whole document here.
Suffix(q) ==
  CASE q.entry = "stream" /\ q.isSelect /\ q.mediaType = "sparqlXml" -> << <<"endresults", -1>> >>
    [] q.entry = "stream" /\ q.isSelect /\ q.mediaType = "sparqlJson" -> << <<"jsonend", -1>> >>
    [] q.entry = "qleverStream" -> << <<"resultsize", -1, nres>> >>
    [] q.entry = "json" /\ q.mediaType = "qleverJson" -> QleverJsonDocument(q, doc)
    [] q.entry = "json" /\ q.mediaType = "sparqlJson" ->
         << <<"jsonhead", -1>> >> \o DumpArray(doc) \o << <<"jsonend", -1>> >>
    [] OTHER -> <<>>

ExportFinish ==
  /\ pc = "rows"
  /\ pos > Len(RowRange)
  /\ out' = out \o Suffix(query)
  /\ pc' = "done"
  /\ UNCHANGED <<query, pos, tpos, cancel, err, operation, doc, nres, rows, cancelAt,
                 bindingVars, plannerVars, utilVars>>

\* Another thread sets the cancellation handle.  cancelAt records where the
\* generator stood: -1 before its first resumption, the row index while that
\* row is being processed, -3 after the row loop.
NotCancelled == -2

Cancel ==
  /\ pc \in {"start", "rows"}
  /\ ~cancel
  /\ cancel' = TRUE
  /\ cancelAt' = IF pc = "start" THEN -1
                 ELSE IF pos <= Len(RowRange) THEN RowRange[pos] ELSE -3
  /\ UNCHANGED <<query, pc, pos, tpos, out, err, operation, doc, nres, rows, bindingVars, plannerVars, utilVars>>

ExportInit ==
  /\ query \in SelectQueries \cup ConstructQueries
  /\ pc = "start"
  /\ pos = 1
  /\ tpos = 1
  /\ cancel = FALSE
  /\ out = <<>>
  /\ err = "none"
  /\ operation = ""
  /\ doc = <<>>
  /\ nres = 0
  /\ rows = <<>>
  /\ cancelAt = NotCancelled
  /\ BindingIdle
  /\ PlannerIdle
  /\ UtilIdle

ExportNext ==
  \/ ExportBegin
  \/ SelectRow
  \/ ConstructTriple
  \/ ExportFinish
  \/ Cancel

ExportSpec == ExportInit /\ [][ExportNext]_vars

(***************************************************************************)
(* The binding decoder on its own: the resolved string is any string over  *)
(* Chars (a text excerpt is arbitrary text); a datatype IRI comes only     *)
(* with the lexical form of an encoded value, which holds no markup.       *)
(***************************************************************************)
ExportIdle ==
  /\ query = IdleQuery
  /\ pc = "idle"
  /\ pos = 1
  /\ tpos = 1
  /\ cancel = FALSE
  /\ out = <<>>
  /\ err = "none"
  /\ operation = ""
  /\ doc = <<>>
  /\ nres = 0
  /\ rows = <<>>
  /\ cancelAt = NotCancelled

BindingInit ==
  /\ ExportIdle
  /\ entitystr \in SeqsUpTo(Chars, MaxStrLen)
  /\ xsdType \in {nullptr} \cup XsdTypes
  /\ xsdType # nullptr => entitystr \in SeqsUpTo({"a"}, 2)
  /\ binding = NoBinding
  /\ xmlBinding = NoBinding
  /\ PlannerIdle
  /\ UtilIdle

BindingNext ==
  \/ DecodeJson /\ UNCHANGED <<exportVars, plannerVars, utilVars>>
  \/ DecodeXml /\ UNCHANGED <<exportVars, plannerVars, utilVars>>

BindingSpec == BindingInit /\ [][BindingNext]_vars

(***************************************************************************)
(* The planner on its own.  The where clause is a selection of up to       *)
(* MaxTriples triples of TripleMenu, in the order of the menu; the rest of *)
(* the query is one of Modifiers.                                          *)
(***************************************************************************)
TripleMenu ==
  << SparqlTriple("?x", "<p>", "?y"),
     SparqlTriple("?y", "<q>", "?z"),
     SparqlTriple("?z", "<r>", "?x"),
     SparqlTriple("?x", "<p>", "<a>"),
     SparqlTriple("<a>", "<q>", "?y"),
     SparqlTriple("<a>", "<p>", "<b>"),
     SparqlTriple("?x", "?p", "?y"),
     SparqlTriple("?x", "?x", "<a>"),
     SparqlTriple("<a>", "?p", "<b>"),
     SparqlTriple("?c", IN_CONTEXT_RELATION, "word"),
     SparqlTriple("?x", IN_CONTEXT_RELATION, "?c"),
     SparqlTriple("?c", "<p>", "?y") >>

\* Selections of four triples of the menu, for a table with a row that is
\* filled by two calls of merge.
LargeSelections == {{1, 2, 4, 5}, {1, 2, 4, 12}}

WhereClauses ==
  {[k \in 1..Cardinality(S) |-> TripleMenu[SortedSeq(S)[k]]] :
     S \in {T \in SUBSET (1..Len(TripleMenu)) : Cardinality(T) \in 1..MaxTriples}
             \cup LargeSelections}

SparqlFilter(lhs, rhs) == [lhs |-> lhs, rhs |-> rhs]
OrderKey(key, desc) == [key |-> key, desc |-> desc]

Modifier(filters, orderBy, distinct, textLimit) ==
  [filters |-> filters, orderBy |-> orderBy, distinct |-> distinct,
   selectedVariables |-> <<"?x", "?z">>, textLimit |-> textLimit]

Modifiers ==
  { Modifier(<<>>, <<>>, FALSE, <<>>),
    Modifier(<<SparqlFilter("?x", "?y"), SparqlFilter("?y", "?z")>>, <<>>, FALSE, <<"1", "2">>),
    Modifier(<<>>, <<OrderKey("?x", FALSE)>>, FALSE, <<"-", "1">>),
    Modifier(<<>>, <<OrderKey("?y", TRUE)>>, FALSE, <<"2">>),
    Modifier(<<>>, <<>>, TRUE, <<"2">>),
    Modifier(<<SparqlFilter("?c", "?c")>>, <<>>, FALSE, <<>>),
    Modifier(<<SparqlFilter("?x", "?y")>>, <<OrderKey("?y", FALSE), OrderKey("?x", FALSE)>>,
             TRUE, <<"x">>) }

ParsedQueries ==
  {[triples |-> w, filters |-> m.filters, orderBy |-> m.orderBy, distinct |-> m.distinct,
    selectedVariables |-> m.selectedVariables, textLimit |-> m.textLimit] :
     w \in WhereClauses, m \in Modifiers}

PlannerInit ==
  /\ ExportIdle
  /\ BindingIdle
  /\ UtilIdle
  /\ pq \in ParsedQueries
  /\ ppc = "start"
  /\ tg = EmptyGraph
  /\ finalTab = <<>>
  /\ mergeK = 0
  /\ mergeI = 0
  /\ plan = NoPlan
  /\ perr = "none"
  /\ maxShared = 0

PlannerNext ==
  \/ CreateGraph /\ UNCHANGED <<exportVars, bindingVars, utilVars>>
  \/ PureTextQuery /\ UNCHANGED <<exportVars, bindingVars, utilVars>>
  \/ Seed /\ UNCHANGED <<exportVars, bindingVars, utilVars>>
  \/ Merge /\ UNCHANGED <<exportVars, bindingVars, utilVars>>
  \/ OrderByRow /\ UNCHANGED <<exportVars, bindingVars, utilVars>>
  \/ Select /\ UNCHANGED <<exportVars, bindingVars, utilVars>>

PlannerSpec == PlannerInit /\ [][PlannerNext]_vars

(***************************************************************************)
(* BlankNodeManager on its own: LocalBlankNodeManagers are constructed,    *)
(* asked for ids and destroyed in any order.                               *)
(***************************************************************************)
BlankNodeInit ==
  /\ ExportIdle
  /\ BindingIdle
  /\ PlannerIdle
  /\ UtilIdle

BlankNodeNext ==
  \/ \E l \in Locals : NewLocal(l) /\ UNCHANGED <<exportVars, bindingVars, plannerVars, tcVars, splitVars, ljVars>>
  \/ \E l \in Locals : GetId(l) /\ UNCHANGED <<exportVars, bindingVars, plannerVars, tcVars, splitVars, ljVars>>
  \/ \E l \in Locals : DestroyLocal(l) /\ UNCHANGED <<exportVars, bindingVars, plannerVars, tcVars, splitVars, ljVars>>

BlankNodeSpec == BlankNodeInit /\ [][BlankNodeNext]_vars

(***************************************************************************)
(* TripleComponent on its own: a default-constructed object, then up to    *)
(* MaxOps constructions and assignments.                                   *)
(***************************************************************************)
TripleComponentInit ==
  /\ ExportIdle
  /\ BindingIdle
  /\ PlannerIdle
  /\ UtilIdle

TripleComponentNext ==
  \/ \E input \in TcInputs :
       ConstructTc(input) /\ UNCHANGED <<exportVars, bindingVars, plannerVars, bnVars, splitVars, ljVars>>
  \/ \E input \in TcInputs :
       AssignTc(input) /\ UNCHANGED <<exportVars, bindingVars, plannerVars, bnVars, splitVars, ljVars>>

TripleComponentSpec == TripleComponentInit /\ [][TripleComponentNext]_vars

(***************************************************************************)
(* splitAtContextVars on its own: one call for every graph and filter list *)
(* of the queries of the planner, and for some more queries, with four     *)
(* triples or with two context variables.                                  *)
(***************************************************************************)
SplitMenu == Append(TripleMenu, SparqlTriple("?y", IN_CONTEXT_RELATION, "other"))

SplitSelections == {{4, 5, 10, 12}, {1, 4, 10, 11}, {10, 12, 13}, {4, 10, 12, 13}}

SplitClauses ==
  WhereClauses \cup
    {[k \in 1..Cardinality(S) |-> SplitMenu[SortedSeq(S)[k]]] : S \in SplitSelections}

SplitInit ==
  /\ ExportIdle
  /\ BindingIdle
  /\ PlannerIdle
  /\ BlankNodeIdle
  /\ TripleComponentIdle
  /\ LazyJsonIdle
  /\ splitOut = <<>>
  /\ spc = "call"
  /\ \E w \in SplitClauses, m \in Modifiers, descending \in BOOLEAN :
       LET graph == createTripleGraphFrom(EmptyGraph, w) IN
         /\ identifyTextCliquesError(graph) = "none"
         /\ splitIn = [graph |-> graph, filters |-> m.filters,
                       contextVarToTextNodes |-> identifyTextCliques(graph, descending)]

SplitNext ==
  SplitAtContextVars /\ UNCHANGED <<exportVars, bindingVars, plannerVars, bnVars, tcVars, ljVars>>

SplitSpec == SplitInit /\ [][SplitNext]_vars

(***************************************************************************)
(* LazyJsonParser on its own: a parser for the array path of a well-formed *)
(* document, and the document handed to parseChunk piece by piece, cut at  *)
(* any positions.  The documents have strings with brackets, braces, a     *)
(* comma and an escaped quote, elements that are arrays and objects, and   *)
(* members before and after the array.                                     *)
(***************************************************************************)
\* {"r":[1,2,3]}
Document1 ==
  [head |-> <<"{", Quote, "r", Quote, ":", "[">>,
   elements |-> << <<"1">>,
                   <<"2">>,
                   <<"3">> >>,
   tail |-> <<"]", "}">>,
   arrayPath |-> << <<"r">> >>]

\* {"r":["a,","\"","]"],"m":{}}
Document2 ==
  [head |-> <<"{", Quote, "r", Quote, ":", "[">>,
   elements |-> << <<Quote, "a", ",", Quote>>,
                   <<Quote, Backslash, Quote, Quote>>,
                   <<Quote, "]", Quote>> >>,
   tail |-> <<"]", ",", Quote, "m", Quote, ":", "{", "}", "}">>,
   arrayPath |-> << <<"r">> >>]

\* {"a":{"r":[[1,2],{"k":"}"}]}}
Document3 ==
  [head |-> <<"{", Quote, "a", Quote, ":", "{", Quote, "r", Quote, ":", "[">>,
   elements |-> << <<"[", "1", ",", "2", "]">>,
                   <<"{", Quote, "k", Quote, ":", Quote, "}", Quote, "}">> >>,
   tail |-> <<"]", "}", "}">>,
   arrayPath |-> << <<"a">>, <<"r">> >>]

\* {"h":{"v":"["},"r":[1,2]}
Document4 ==
  [head |-> <<"{", Quote, "h", Quote, ":", "{", Quote, "v", Quote, ":", Quote, "[", Quote, "}", ",", Quote, "r", Quote, ":", "[">>,
   elements |-> << <<"1">>,
                   <<"2">> >>,
   tail |-> <<"]", "}">>,
   arrayPath |-> << <<"r">> >>]

Documents == {Document1, Document2, Document3, Document4}

LazyJsonInit ==
  /\ ExportIdle
  /\ BindingIdle
  /\ PlannerIdle
  /\ BlankNodeIdle
  /\ TripleComponentIdle
  /\ SplitIdle
  /\ ljDocument \in Documents
  /\ ljFed = 0
  /\ ljParser = NewParser(ljDocument.arrayPath)
  /\ ljResults = <<>>

LazyJsonNext ==
  \E n \in 1..Len(TextOf(ljDocument)) :
    ParseChunk(n) /\ UNCHANGED <<exportVars, bindingVars, plannerVars, bnVars, tcVars, splitVars>>

LazyJsonSpec == LazyJsonInit /\ [][LazyJsonNext]_vars

(***************************************************************************)
(* Claims about the exporter (checked under ExportSpec).                   *)
(***************************************************************************)
IsPrefix(s, t) == Len(s) <= Len(t) /\ \A k \in 1..Len(s) : s[k] = t[k]

Count(seq, P(_)) == Cardinality({k \in 1..Len(seq) : P(seq[k])})

\* The rows LIMIT/OFFSET select from a table of n rows, as the claim states
\* them: the increasing sequence of the i < n with offset <= i < offset + limit.
ClaimedRows(lo, n) ==
  SelectSeq([k \in 1..n |-> k - 1],
            LAMBDA i : i >= lo.offset /\ (lo.limit = NoLimit \/ i < lo.offset + lo.limit))

ClaimedCount(lo, n) ==
  IF lo.limit = NoLimit THEN Max(0, n - lo.offset)
                        ELSE Min(lo.limit, Max(0, n - lo.offset))

\* C1 as stated: every export that completes has run its row loop over exactly
\* the rows offset <= i < offset + limit of the table, in increasing order,
\* each once, min(limit, max(0, n - offset)) rows in all.
C1_AllFormatsEmitRange ==
  pc = "done" =>
    /\ rows = ClaimedRows(query.lo, query.n)
    /\ Len(rows) = ClaimedCount(query.lo, query.n)

\* C1 amended: at every moment the rows processed so far are a prefix of that
\* range (no row below the offset or at or beyond offset + limit, none twice,
\* in increasing order), and an export that completes has processed exactly
\* the range - except the SPARQL-JSON SELECT exports when no selected variable
\* is bound in the tree, which process no row at all.
C1_RowRange ==
  /\ IsPrefix(rows, ClaimedRows(query.lo, query.n))
  /\ pc = "done" =>
       IF query.isSelect /\ query.mediaType = "sparqlJson"
            /\ \A j \in 1..Len(query.cols) : query.cols[j] = "unbound"
         THEN rows = <<>>
         ELSE /\ rows = ClaimedRows(query.lo, query.n)
              /\ Len(rows) = ClaimedCount(query.lo, query.n)

\* C1 witness: a table of 3 rows exported with LIMIT 1 OFFSET 1 to the end.
C1_Witness ==
  /\ pc = "done"
  /\ query.n = 3
  /\ query.lo = [limit |-> 1, offset |-> 1]
  /\ rows = <<1>>
  /\ Len(out) > 0

\* C2: if the handle is set while row i of the range is being processed, the
\* export does not complete and nothing belonging to a later row is emitted.
C2_RowBoundaryIsCancellationCheck ==
  cancelAt >= 0 =>
    /\ pc # "done"
    /\ \A k \in 1..Len(out) : out[k][2] <= cancelAt
    /\ pc = "error" => err = "cancelled"

\* C3: with the handle set before the export starts on a row range that is
\* not empty (and the export is one that looks at its rows), the export ends
\* with a cancellation error tagged with an operation name and only the
\* preamble has been emitted: no chunk of the body, and no normal completion.
C3_CancelledBeforeFirstRow ==
  (cancelAt = -1 /\ Refusal(query) = "none" /\ ~NoColumns(query)
     /\ ClaimedRows(query.lo, query.n) # <<>>) =>
    /\ \A k \in 1..Len(out) : out[k][2] = -1
    /\ pc # "done"
    /\ pc = "error" => (err = "cancelled" /\ operation # "")

\* C4: a cancellation error that leaves an entry point carries the operation
\* name of that entry point.
C4_CancellationIsTagged ==
  err = "cancelled" =>
    operation = IF query.entry = "json" THEN "Query export" ELSE "Stream query export"

\* C5: the chunks of the streaming SPARQL-JSON SELECT export concatenate to
\* the head, the bindings separated by single commas (none before the first),
\* and the closing brackets.
C5_SparqlJsonWellFormed ==
  (query.entry = "stream" /\ query.mediaType = "sparqlJson" /\ query.isSelect
     /\ pc = "done") =>
    out = << <<"jsonhead", -1>> >>
            \o DumpArray(SelectSeq(out, LAMBDA t : t[1] = "bind"))
            \o << <<"jsonend", -1>> >>

\* C6: a CONSTRUCT export to the binary, SPARQL-XML or SPARQL-JSON format is
\* refused on the streaming and on the materialised path, and serialises no
\* triple.
C6_ConstructRefused ==
  (~query.isSelect /\ query.entry \in {"stream", "json"}
     /\ query.mediaType \in {"octetStream", "sparqlXml", "sparqlJson"}) =>
    /\ \A k \in 1..Len(out) : out[k][1] \notin {"triple", "row"}
    /\ pc \in {"done", "error"} => err = "refused"

\* C7: in the CSV and TSV SELECT export of m selected variables the header
\* and every exported row are one line of m cells: m - 1 separators, exactly
\* one newline at its end, and a value in exactly the cells whose variable is
\* bound and resolves.
LineOf(r) == SelectSeq(out, LAMBDA t : t[2] = r /\ (r # -1 \/ t[1] \in {"name", "sep", "nl"}))

C7_CsvLines ==
  (query.entry = "stream" /\ query.mediaType \in {"csv", "tsv"} /\ query.isSelect) =>
    \A r \in {rows[k] : k \in 1..Len(rows)} \cup (IF pc = "start" THEN {} ELSE {-1}) :
      LET line == LineOf(r)
          m == Len(query.cols)
      IN /\ line # <<>>
         /\ line[Len(line)][1] = "nl"
         /\ Count(line, LAMBDA t : t[1] = "nl") = 1
         /\ Count(line, LAMBDA t : t[1] = "sep") = Max(m - 1, 0)
         /\ r >= 0 =>
              Count(line, LAMBDA t : t[1] = "cell")
                = Count(query.cols, LAMBDA c : c = "val")

(***************************************************************************)
(* Claims about the binding decoder (checked under BindingSpec).           *)
(***************************************************************************)
\* The positions (1-based) of the first and the last '"' of a string holding one.
FirstQuote(str) == CHOOSE k \in 1..Len(str) : str[k] = "\"" /\ \A l \in 1..(k - 1) : str[l] # "\""
LastQuote(str) == CHOOSE k \in 1..Len(str) : str[k] = "\"" /\ \A l \in (k + 1)..Len(str) : str[l] # "\""

\* The decoding as the claim states it, for a binding b of the SPARQL-XML
\* (xml) or SPARQL-JSON export.  Strings on which the decoder's own checks
\* fail are left aside.
ClaimedDecoding(str, b, xml) ==
  IF starts_with(str, <<"<">>)
    THEN b.type = "uri" /\ b.value = escape(xml, SubSeq(str, 2, Len(str) - 1))
  ELSE IF starts_with(str, <<"_", ":">>)
    THEN b.type = "bnode" /\ b.value = SubSeq(str, 3, Len(str))
  ELSE IF \A k \in 1..Len(str) : str[k] # "\""
    THEN b = Binding("literal", escape(xml, str), "none", <<>>)
  ELSE LET first == FirstQuote(str)
           last == LastQuote(str)
           trailer == SubSeq(str, last + 1, Len(str))
       IN b.type # "error" =>
            /\ b.type = "literal"
            /\ b.value = escape(xml, SubSeq(str, first + 1, last - 1))
            /\ starts_with(trailer, <<"@">>) =>
                 b.attr = "xml:lang" /\ b.content = Tail(trailer)
            /\ (starts_with(trailer, <<"^", "^", "<">>) /\ trailer[Len(trailer)] = ">") =>
                 b.attr = "datatype" /\ b.content = escape(xml, SubSeq(trailer, 4, Len(trailer) - 1))

\* C8: without a datatype IRI from the resolver, the SPARQL-JSON and the
\* SPARQL-XML binding of a resolved string are: type uri with the brackets
\* stripped for a leading '<'; type bnode with the prefix stripped for a
\* leading '_:'; otherwise a literal whose value is the part between the
\* first and the last '"', with @lang as xml:lang and ^^<iri> as datatype;
\* the whole string as a plain literal when it holds no '"'.
C8_BindingDecoding ==
  xsdType = nullptr =>
    /\ binding # NoBinding => ClaimedDecoding(entitystr, binding, FALSE)
    /\ xmlBinding # NoBinding => ClaimedDecoding(entitystr, xmlBinding, TRUE)

\* C8: a string with its first '"' behind its first character is decoded.
C8_QuoteInsideText ==
  /\ xsdType = nullptr
  /\ entitystr = <<"a", "\"", "a", "\"">>
  /\ binding # NoBinding
  /\ xmlBinding # NoBinding

\* The streaming tool-JSON export has run to its end.
QleverStreamDone == pc = "done" /\ query.entry = "qleverStream"

\* The elements of `res` in what the stream has yielded.
StreamedRes == SelectSeq(out, LAMBDA chunk : chunk[1] = "row")

\* C28: what computeResultAsQLeverJSONStream has yielded at its end is the
\* document computeQueryResultAsQLeverJSON returns for the same query and
\* result: the same elements of res in the same order, one comma between
\* two of them, and the same resultsize.
C28_StreamIsMaterialisedDocument ==
  QleverStreamDone =>
    /\ out = QleverJsonDocument(query, StreamedRes)
    /\ query.isSelect =>
         StreamedRes = [k \in 1..Len(RowRange) |-> <<"row", RowRange[k]>>]

\* C28: the stream of a SELECT query has ended after fewer rows than the
\* result has, LIMIT and OFFSET having cut the others.
C28_StreamOfLimitedSelect ==
  /\ QleverStreamDone
  /\ query.isSelect
  /\ 0 < Len(StreamedRes)
  /\ Len(StreamedRes) < query.n

(***************************************************************************)
(* Claims about the planner.                                               *)
(***************************************************************************)
\* The tree and all the trees below it.
RECURSIVE SubtreesOf(_)
SubtreesOf(tree) ==
  {tree} \cup UNION {SubtreesOf(tree.kids[k]) : k \in 1..Len(tree.kids)}

SharedVariables(left, right) ==
  {e[1] : e \in left.vcm} \cap {e[1] : e \in right.vcm}

\* Every Join of the tree has sides that share exactly one variable, and
\* joins on the columns of this variable.
JoinsOnOneVariable(tree) ==
  \A t \in SubtreesOf(tree) :
    t.type = "JOIN" =>
      LET left == t.kids[1]
          right == t.kids[2]
      IN /\ Cardinality(SharedVariables(left, right)) = 1
         /\ \A v \in SharedVariables(left, right) :
              /\ t.detail[1] = getVariableColumn(left.vcm, v)
              /\ t.detail[2] = getVariableColumn(right.vcm, v)

\* { ?x <p> ?y . ?y <q> ?z . ?z <r> ?x }
IsCyclicQuery ==
  pq.triples = <<TripleMenu[1], TripleMenu[2], TripleMenu[3]>>

\* C9: once merge has looked at a connected, non-overlapping pair of plans
\* whose variable-column maps share more than one variable, planning has
\* failed with NOT_YET_IMPLEMENTED; the cyclic query of three triples is
\* never planned and fails with NOT_YET_IMPLEMENTED only; and every Join in
\* the returned plan, and in every plan of the table, joins two sides that
\* share exactly one variable, on the columns of that variable.
C9_JoinOnOneVariableOnly ==
  /\ maxShared > 1 => ppc = "error" /\ perr = "NOT_YET_IMPLEMENTED"
  /\ IsCyclicQuery => /\ ppc # "done"
                      /\ ppc = "error" => perr = "NOT_YET_IMPLEMENTED"
  /\ ppc = "done" => JoinsOnOneVariable(plan.qet)
  /\ \A r \in 1..Len(finalTab) : \A n \in 1..Len(finalTab[r]) :
       JoinsOnOneVariable(finalTab[r][n].qet)

\* C9: the cyclic query has been refused at a pair sharing two variables.
C9_CyclicQueryRefused ==
  /\ IsCyclicQuery
  /\ maxShared = 2
  /\ ppc = "error"
  /\ perr = "NOT_YET_IMPLEMENTED"

HasPredicateVariable ==
  \E k \in 1..Len(pq.triples) : isVariable(pq.triples[k].p)

\* C10: a query with a triple whose predicate is a variable is never
\* planned, and the exception that ends createExecutionTree is
\* NOT_YET_IMPLEMENTED, whatever its other triples are.
C10_PredicateVariableNotImplemented ==
  HasPredicateVariable =>
    /\ ppc # "done"
    /\ ppc = "error" => perr = "NOT_YET_IMPLEMENTED"

\* C10: { ?x ?x <a> } has been planned as a scan with the variable as its
\* predicate.
C10_PredicateVariablePlanned ==
  /\ pq.triples = <<SparqlTriple("?x", "?x", "<a>")>>
  /\ ppc = "done"
  /\ plan.qet.type \in {"SCAN", "DISTINCT"}
  /\ perr = "none"

\* The last row of the table, and the tree createExecutionTree has selected
\* from it (below the Distinct operation, if there is one).
LastRow == finalTab[Len(finalTab)]

SelectedTree == IF pq.distinct THEN plan.qet.kids[1] ELSE plan.qet

\* C11: the tree createExecutionTree returns (below its Distinct) is the
\* tree of a plan of the last row, no plan of the last row has a smaller
\* cost estimate, and it is the tree of the earliest plan of the row with
\* that cost estimate.
C11_MinCostEarliestSelected ==
  ppc = "done" =>
    /\ \E k \in 1..Len(LastRow) : LastRow[k].qet = SelectedTree
    /\ \A l \in 1..Len(LastRow) : SelectedTree.cost <= getCostEstimate(LastRow[l])
    /\ \A k \in 1..Len(LastRow) :
         (/\ getCostEstimate(LastRow[k]) = SelectedTree.cost
          /\ \A l \in 1..(k - 1) : getCostEstimate(LastRow[l]) # SelectedTree.cost)
           => LastRow[k].qet = SelectedTree

\* C11: a plan has been selected from a last row with two different plans
\* of least cost and a plan of higher cost.
C11_TieInLastRow ==
  /\ ppc = "done"
  /\ \E k, l \in 1..Len(LastRow) :
       /\ k < l
       /\ LastRow[k].qet # LastRow[l].qet
       /\ getCostEstimate(LastRow[k]) = SelectedTree.cost
       /\ getCostEstimate(LastRow[l]) = SelectedTree.cost
  /\ \E l \in 1..Len(LastRow) : getCostEstimate(LastRow[l]) > SelectedTree.cost

\* The value of a string of decimal digits.
RECURSIVE DecimalValue(_)
DecimalValue(str) ==
  IF str = <<>> THEN 0
  ELSE 10 * DecimalValue(SubSeq(str, 1, Len(str) - 1)) + DigitValue(str[Len(str)])

IsDecimal(str) == \A k \in 1..Len(str) : str[k] \in Range(Digits)

\* C12: a planned query, with or without DISTINCT, whose text-limit string
\* is empty or a non-negative decimal has setTextLimit called on the
\* returned tree: with 1 for the empty string, else with the value of the
\* string.
C12_TextLimitAttached ==
  (ppc = "done" /\ IsDecimal(pq.textLimit)) =>
    plan.textLimit = <<IF pq.textLimit = <<>> THEN 1 ELSE DecimalValue(pq.textLimit)>>

\* C12: a DISTINCT query with the text limit "2" is planned and its tree is
\* returned without a text limit.
C12_DistinctWithoutTextLimit ==
  /\ ppc = "done"
  /\ pq.distinct
  /\ pq.textLimit = <<"2">>
  /\ plan.qet.type = "DISTINCT"
  /\ plan.textLimit = <<>>

\* C13 (planner): the tree createExecutionTree returns for a query is the
\* tree it returns when every unordered container is iterated in ascending
\* order, and also the one for descending order: the selected tree does not
\* depend on the iteration order of the containers.
C13_PlannerDeterminism ==
  ppc = "done" =>
    \A descending \in BOOLEAN :
      /\ createExecutionTree(pq, descending).err = "none"
      /\ createExecutionTree(pq, descending).tree = plan

\* C13: { ?x <p> ?y . ?x <p> <a> . ?c <p> ?y } has been planned with a tree
\* that is not the one the ascending iteration order gives.
C13_OrderDependentPlan ==
  /\ ppc = "done"
  /\ pq.triples = <<TripleMenu[1], TripleMenu[4], TripleMenu[12]>>
  /\ pq.filters = <<>> /\ pq.orderBy = <<>> /\ ~pq.distinct
  /\ createExecutionTree(pq, FALSE).err = "none"
  /\ createExecutionTree(pq, FALSE).tree # plan
  /\ createExecutionTree(pq, FALSE).tree.qet.cost = plan.qet.cost

\* The nodes of `nodes` reached from `seen` along edges between nodes of
\* `nodes`.
RECURSIVE ReachableIn(_, _, _)
ReachableIn(graph, nodes, seen) ==
  LET more == seen \cup {m \in nodes : \E n \in seen : m \in Range(AdjOf(graph, n))}
  IN IF more = seen THEN seen ELSE ReachableIn(graph, nodes, more)

InducedConnected(graph, nodes) ==
  /\ nodes # {}
  /\ \A n \in nodes : ReachableIn(graph, nodes, {n}) = nodes

EdgeBetween(graph, left, right) ==
  \E n \in left, m \in right : m \in Range(AdjOf(graph, n))

\* The rows of the table that fillDpTab built (the row for ORDER BY is
\* behind them).
DpRows == 1..Min(Len(finalTab), Len(tg.nodes))

\* C16: every plan of row k of the table holds exactly k nodes, the subgraph
\* of the triple graph induced by them is connected, and for k >= 2 the plan
\* combines a plan of a row i and a plan of row k - i whose node sets are
\* disjoint and joined by an edge of the graph.
C16_PlanCompleteness ==
  \A k \in DpRows : \A n \in 1..Len(finalTab[k]) :
    LET p == finalTab[k][n] IN
      /\ Cardinality(p.idsOfIncludedNodes) = k
      /\ InducedConnected(tg, p.idsOfIncludedNodes)
      /\ k >= 2 =>
           \E i \in 1..(k - 1) :
             \E ia \in 1..Len(finalTab[i]), ib \in 1..Len(finalTab[k - i]) :
               LET left == finalTab[i][ia].idsOfIncludedNodes
                   right == finalTab[k - i][ib].idsOfIncludedNodes
               IN /\ left \cap right = {}
                  /\ left \cup right = p.idsOfIncludedNodes
                  /\ EdgeBetween(tg, left, right)

\* C16: row 3 of the table of a query with three nodes holds a plan.
C16_RowThreeFilled ==
  /\ Len(tg.nodes) = 3
  /\ Len(finalTab) >= 3
  /\ finalTab[3] # <<>>
  /\ finalTab[2] # <<>>

\* The pruning key of a plan of the table: the variable of the column it is
\* ordered on, and its sorted node ids.
KeyOf(p) == getPruningKey(p, p.qet.sortedOn)

\* C17: when fillDpTab has returned, no two plans of a row k >= 2 of its
\* table that are ordered on a column have the same pruning key (the
\* variable of that column, the sorted node ids).
C17_PruningSoundness ==
  ppc \in {"post", "select", "done"} =>
    \A k \in DpRows : k >= 2 =>
      \A n, m \in 1..Len(finalTab[k]) :
        (/\ n # m
         /\ finalTab[k][n].qet.sortedOn # NotSorted
         /\ finalTab[k][m].qet.sortedOn # NotSorted)
          => KeyOf(finalTab[k][n]) # KeyOf(finalTab[k][m])

\* C17: fillDpTab has returned a table whose row 4 holds two join plans
\* ordered on the same variable over the same four nodes.
C17_SameKeyTwiceInRow ==
  /\ ppc = "post"
  /\ Len(tg.nodes) = 4
  /\ Len(finalTab) >= 4
  /\ \E n, m \in 1..Len(finalTab[4]) :
       /\ n < m
       /\ finalTab[4][n].qet.type = "JOIN"
       /\ finalTab[4][m].qet.type = "JOIN"
       /\ finalTab[4][n].idsOfIncludedNodes = {0, 1, 2, 3}
       /\ KeyOf(finalTab[4][n]) = KeyOf(finalTab[4][m])

\* Query filter number i (0-based, as in _idsOfIncludedFilters).
FilterOf(i) == pq.filters[i + 1]

FilterIds == 0..(Len(pq.filters) - 1)

Covers(tree, f) == varCovered(tree.vcm, f.lhs) /\ varCovered(tree.vcm, f.rhs)

\* C18: for every plan of every row of the table, the row for ORDER BY
\* included, every filter recorded in its idsOfIncludedFilters is a filter
\* of the query whose lhs and rhs are both keys of the variable-column map
\* of the plan's tree.
C18_FilterCoverage ==
  \A r \in 1..Len(finalTab) : \A n \in 1..Len(finalTab[r]) :
    \A i \in finalTab[r][n].idsOfIncludedFilters :
      /\ i \in FilterIds
      /\ Covers(finalTab[r][n].qet, FilterOf(i))

\* C18: a join plan of the table records a filter it has from its left
\* side, and the row for ORDER BY holds a plan with a recorded filter.
C18_JoinInheritsFilter ==
  /\ Len(pq.orderBy) > 0
  /\ ppc = "done"
  /\ \E n \in 1..Len(LastRow) : LastRow[n].idsOfIncludedFilters # {}
  /\ \E r \in DpRows : \E n \in 1..Len(finalTab[r]) :
       /\ finalTab[r][n].qet.type = "JOIN"
       /\ finalTab[r][n].idsOfIncludedFilters # {}

\* The tree holds a Filter operation for f, on the columns of f's variables.
HasFilter(tree, f) ==
  \E t \in SubtreesOf(tree) :
    /\ t.type = "FILTER"
    /\ Covers(t, f)
    /\ t.detail = <<getVariableColumn(t.vcm, f.lhs), getVariableColumn(t.vcm, f.rhs)>>

\* C19: every plan of every row of the table has recorded, and holds a
\* Filter operation for, every filter of the query whose lhs and rhs it
\* covers; and the tree createExecutionTree returns holds a Filter operation
\* for every filter it covers, also when the query is a pure text query.
C19_FilterInjectionComplete ==
  /\ \A r \in 1..Len(finalTab) : \A n \in 1..Len(finalTab[r]) :
       \A i \in FilterIds :
         Covers(finalTab[r][n].qet, FilterOf(i)) =>
           /\ i \in finalTab[r][n].idsOfIncludedFilters
           /\ HasFilter(finalTab[r][n].qet, FilterOf(i))
  /\ ppc = "done" =>
       \A i \in FilterIds :
         Covers(SelectedTree, FilterOf(i)) => HasFilter(SelectedTree, FilterOf(i))

\* C19: createExecutionTree has returned the plan of a pure text query that
\* covers both variables of a filter of the query and holds no Filter.
C19_PureTextFilterSkipped ==
  /\ ppc = "done"
  /\ isPureTextQuery(tg)
  /\ Len(pq.filters) > 0
  /\ Covers(SelectedTree, FilterOf(0))
  /\ ~HasFilter(SelectedTree, FilterOf(0))

\* The operation below the Filter operations applyFiltersIfPossible has put
\* on a plan of the first row.
RECURSIVE Unfiltered(_)
Unfiltered(tree) ==
  IF tree.type = "FILTER" THEN Unfiltered(tree.kids[1]) ELSE tree

\* The plans of the first row that include the node.
SeedPlansOf(node) ==
  {n \in 1..Len(finalTab[1]) : node.id \in finalTab[1][n].idsOfIncludedNodes}

FirstColumnIs(p, var) ==
  /\ Unfiltered(p.qet).type = "SCAN"
  /\ varCovered(p.qet.vcm, var)
  /\ getVariableColumn(p.qet.vcm, var) = 0

IsTextNode(node) == node.cvar # ""

NodesWithoutVariables ==
  {k \in 1..Len(tg.nodes) : ~IsTextNode(tg.nodes[k]) /\ tg.nodes[k].variables = {}}

\* The first row of the table of fillDpTab is as the seeding leaves it.
SeedRowAsClaimed ==
  /\ \A n \in 1..Len(finalTab[1]) :
       \E k \in 1..Len(tg.nodes) : finalTab[1][n].idsOfIncludedNodes = {tg.nodes[k].id}
  /\ \A k \in 1..Len(tg.nodes) :
       LET node == tg.nodes[k]
           seeds == SeedPlansOf(node)
       IN IF IsTextNode(node)
            THEN /\ Cardinality(seeds) = 1
                 /\ \A n \in seeds : Unfiltered(finalTab[1][n].qet).type = "TEXT_WITHOUT_FILTER"
          ELSE IF Cardinality(node.variables) = 1
            THEN /\ Cardinality(seeds) = 1
                 /\ \A n \in seeds : \A v \in node.variables : FirstColumnIs(finalTab[1][n], v)
          ELSE IF Cardinality(node.variables) = 2 /\ ~isVariable(node.triple.p)
            THEN /\ Cardinality(seeds) = 2
                 /\ \E n \in seeds : FirstColumnIs(finalTab[1][n], node.triple.s)
                 /\ \E n \in seeds : FirstColumnIs(finalTab[1][n], node.triple.o)
          ELSE FALSE

HasOrderByRow == ppc \in {"select", "done"} /\ Len(pq.orderBy) > 0

PreviousRow == finalTab[Len(finalTab) - 1]

OneAscendingKey == Len(pq.orderBy) = 1 /\ ~pq.orderBy[1].desc

AlreadySorted(p) ==
  /\ OneAscendingKey
  /\ p.qet.sortedOn = getVariableColumn(p.qet.vcm, pq.orderBy[1].key)

\* One plan per plan of the previous row, in its order, with its nodes and
\* filters; the plan itself iff it is sorted on the one ascending key, and
\* else a Sort (when sortWhen holds) or an OrderBy on the plan's tree.
OrderByRowIs(sortWhen) ==
  /\ Len(LastRow) = Len(PreviousRow)
  /\ \A i \in 1..Len(LastRow) :
       /\ LastRow[i].idsOfIncludedNodes = PreviousRow[i].idsOfIncludedNodes
       /\ LastRow[i].idsOfIncludedFilters = PreviousRow[i].idsOfIncludedFilters
       /\ (LastRow[i] = PreviousRow[i]) <=> AlreadySorted(PreviousRow[i])
       /\ ~AlreadySorted(PreviousRow[i]) =>
            /\ LastRow[i].qet.type = (IF sortWhen THEN "SORT" ELSE "ORDER_BY")
            /\ LastRow[i].qet.kids = <<PreviousRow[i].qet>>

\* C21 (as stated): the row of getOrderByRow holds one plan per plan of the
\* last row of fillDpTab, in the same order, with the same nodes and
\* filters; the plan is unchanged iff the list is one ascending key on whose
\* column the plan is sorted; otherwise it is under a Sort when the list has
\* one key and under an OrderBy when it has several.
C21_SortForEverySingleKey == HasOrderByRow => OrderByRowIs(Len(pq.orderBy) = 1)

\* C21 (amended): as above, but the plan is under a Sort only when the list
\* is one ascending key; for one descending key and for several keys it is
\* under an OrderBy.
C21_OrderByRow == HasOrderByRow => OrderByRowIs(OneAscendingKey)

\* C21: the row for one descending key is made, with an OrderBy in it.
C21_DescendingKeyRow ==
  /\ HasOrderByRow
  /\ Len(pq.orderBy) = 1
  /\ pq.orderBy[1].desc
  /\ \E i \in 1..Len(LastRow) : LastRow[i].qet.type = "ORDER_BY"

\* The graph createTripleGraph builds for the query at hand.
BuiltGraph == createTripleGraph(pq)

Adjacent(graph, i, j) == j \in Range(AdjOf(graph, i))

\* The adjacency of the graph is symmetric and without self-loops, and there
\* is one adjacency list per node, the nodes being numbered from 0.
WellFormedGraph(graph) ==
  /\ Len(graph.adjLists) = Len(graph.nodes)
  /\ \A i \in 1..Len(graph.nodes) : graph.nodes[i].id = i - 1
  /\ \A i \in Range(NodeIds(graph)) :
       /\ Range(AdjOf(graph, i)) \subseteq Range(NodeIds(graph))
       /\ ~Adjacent(graph, i, i)
       /\ \A j \in Range(NodeIds(graph)) : Adjacent(graph, i, j) <=> Adjacent(graph, j, i)

\* C22: in the graph of createTripleGraph the node with id i is the node of
\* the (i+1)-th triple of the WHERE clause, there is one adjacency list per
\* node, two distinct nodes are adjacent iff their triples share a variable,
\* the adjacency is symmetric and no node is adjacent to itself.
C22_TripleGraphAdjacency ==
  /\ WellFormedGraph(BuiltGraph)
  /\ Len(BuiltGraph.nodes) = Len(pq.triples)
  /\ \A i \in 1..Len(pq.triples) : BuiltGraph.nodes[i].triple = pq.triples[i]
  /\ \A i, j \in Range(NodeIds(BuiltGraph)) :
       i # j =>
         (Adjacent(BuiltGraph, i, j) <=>
            NodeOf(BuiltGraph, i).variables \cap NodeOf(BuiltGraph, j).variables # {})

\* C22: the graph was built for three triples of which two share two
\* variables and two share none.
C22_GraphOfThreeTriples ==
  /\ ppc = "graph"
  /\ Len(BuiltGraph.nodes) = 3
  /\ \E i, j \in Range(NodeIds(BuiltGraph)) :
       /\ i # j
       /\ Cardinality(NodeOf(BuiltGraph, i).variables \cap NodeOf(BuiltGraph, j).variables) = 2
  /\ \E i, j \in Range(NodeIds(BuiltGraph)) : i # j /\ ~Adjacent(BuiltGraph, i, j)

\* collapseTextCliques has returned: the graph at hand is the collapsed graph
\* of the query (the later steps leave it as it is).
HasCollapsedGraph == ppc = "graph"

\* The nodes of the built graph that are in the text clique of cvar, and the
\* nodes that are in no clique, in their order.
CliqueOf(cvar) ==
  {i \in Range(NodeIds(BuiltGraph)) :
     /\ isTextNode(BuiltGraph, i)
     /\ cvar \in {NodeOf(BuiltGraph, i).triple.s, NodeOf(BuiltGraph, i).triple.o}}

CliqueVars == ContextVarsOf(BuiltGraph)

OutsideCliques ==
  SelectSeq(NodeIds(BuiltGraph), LAMBDA i : \A v \in CliqueVars : i \notin CliqueOf(v))

\* The nodes of the built graph that node k (1-based) of the collapsed graph
\* stands for.
CollapsedFrom(k) ==
  IF IsTextNode(tg.nodes[k]) THEN CliqueOf(tg.nodes[k].cvar)
  ELSE {OutsideCliques[k - Cardinality(CliqueVars)]}

\* C23: the collapsed graph holds one text node for every text clique, in
\* front, and behind them the nodes outside the cliques in their order; its
\* nodes are numbered from 0 with one adjacency list each; two of its nodes
\* are adjacent iff a node the one stands for was adjacent to a node the
\* other stands for (so a text node has the neighbours of its clique
\* without the clique, and two other nodes are adjacent as before); the
\* adjacency is symmetric and without self-loops.
C23_CollapsedGraph ==
  HasCollapsedGraph =>
    /\ WellFormedGraph(tg)
    /\ Len(tg.nodes) = Cardinality(CliqueVars) + Len(OutsideCliques)
    /\ \A v \in CliqueVars :
         Cardinality({k \in 1..Len(tg.nodes) : tg.nodes[k].cvar = v}) = 1
    /\ \A k \in 1..Len(tg.nodes) :
         IF k <= Cardinality(CliqueVars)
           THEN tg.nodes[k].cvar \in CliqueVars
           ELSE /\ ~IsTextNode(tg.nodes[k])
                /\ \A i \in CollapsedFrom(k) :
                     tg.nodes[k].triple = NodeOf(BuiltGraph, i).triple
    /\ \A a, b \in 1..Len(tg.nodes) :
         a # b =>
           (Adjacent(tg, a - 1, b - 1) <=>
              \E i \in CollapsedFrom(a) : \E j \in CollapsedFrom(b) :
                Adjacent(BuiltGraph, i, j))

\* C23: a clique of two text triples is collapsed in a graph with a node
\* next to the clique.
C23_CliqueOfTwoCollapsed ==
  /\ HasCollapsedGraph
  /\ Len(tg.nodes) = 2
  /\ IsTextNode(tg.nodes[1])
  /\ Cardinality(CliqueOf(tg.nodes[1].cvar)) = 2
  /\ Adjacent(tg, 0, 1)

\* The Filter operations of the tree that apply f.
FiltersFor(tree, f) ==
  {t \in SubtreesOf(tree) :
     /\ t.type = "FILTER"
     /\ Covers(t, f)
     /\ t.detail = <<getVariableColumn(t.vcm, f.lhs), getVariableColumn(t.vcm, f.rhs)>>}

\* C26: in no plan of the table a filter of the query is applied by more
\* than one Filter operation of the plan's tree (merge hands the filters its
\* two input plans have recorded on to the plan it builds).
C26_FilterAppliedOnce ==
  \A r \in 1..Len(finalTab) : \A n \in 1..Len(finalTab[r]) : \A i \in FilterIds :
    Cardinality(FiltersFor(finalTab[r][n].qet, FilterOf(i))) <= 1

\* C26: a plan of the table is a Filter on a join one side of which is a
\* Filter for the same filter of the query.
C26_FilterOnFilteredJoin ==
  \E r \in DpRows : \E n \in 1..Len(finalTab[r]) : \E i \in FilterIds :
    LET tree == finalTab[r][n].qet IN
      /\ tree \in FiltersFor(tree, FilterOf(i))
      /\ tree.kids[1].type = "JOIN"
      /\ \E k \in 1..Len(tree.kids[1].kids) :
           FiltersFor(tree.kids[1].kids[k], FilterOf(i)) # {}

\* The text-with-filter plans of the table (below the Filter operations put
\* on them).
TextWithFilterTrees ==
  {t \in UNION {{Unfiltered(finalTab[r][n].qet) : n \in 1..Len(finalTab[r])} : r \in DpRows} :
     t.type = "TEXT_WITH_FILTER"}

\* The entries of the map of a text-with-filter tree for the variables the
\* filter table (its subtree) does not hold.
OwnColumns(t) == {e \in t.vcm : ~varCovered(t.kids[1].vcm, e[1])}

Injective(vcm) == \A e, f \in vcm : (e[1] = f[1]) <=> (e[2] = f[2])

\* C27: no assert of merge fails, and the map of every text-with-filter
\* plan of the table is injective, with a context variable in column 0, its
\* SCORE in column 1, the other variables the filter table does not hold in
\* consecutive columns from 2, and the variables of the filter table behind
\* them.
C27_TextWithFilterColumns ==
  /\ perr # "ASSERT_FAILED"
  /\ \A t \in TextWithFilterTrees :
       /\ Injective(t.vcm)
       /\ \E cvar \in t.ctx : <<cvar, 0>> \in t.vcm /\ <<ScoreVar(cvar), 1>> \in t.vcm
       /\ {e[2] : e \in OwnColumns(t)} = 0..(Cardinality(OwnColumns(t)) - 1)
       /\ \A e \in t.vcm \ OwnColumns(t) : e[2] >= Cardinality(OwnColumns(t))

\* C27: the table holds a text-with-filter plan whose filter table holds the
\* context variable of the text node, and no variable of which is in
\* column 0.
C27_JoinedOnContextVariable ==
  \E t \in TextWithFilterTrees :
    /\ \E cvar \in t.ctx : varCovered(t.kids[1].vcm, cvar) /\ <<ScoreVar(cvar), 1>> \in t.vcm
    /\ \A e \in t.vcm : e[2] # 0

(***************************************************************************)
(* Claims about BlankNodeManager (checked under BlankNodeSpec).            *)
(***************************************************************************)
AliveLocals == {l \in Locals : alive[l]}

\* C14: the used-blocks set holds exactly the blocks of the
\* LocalBlankNodeManagers that are alive; a LocalBlankNodeManager starts
\* without a block; a getId adds a block exactly when the manager has none
\* or all ids of its last block are used; and after the destruction of a
\* LocalBlankNodeManager none of its blocks is in the set.
C14_UsedBlocksAreHeldBlocks ==
  /\ [](usedBlocksSet = UNION {blockIdxsOf(blocks[l]) : l \in AliveLocals})
  /\ [][\A l \in Locals :
          /\ (~alive[l] /\ alive'[l]) => blocks'[l] = <<>>
          /\ (alive[l] /\ alive'[l] /\ blocks'[l] # blocks[l]) =>
               IF blocks[l] = <<>> \/ allIdsUsed(blocks[l][Len(blocks[l])])
                 THEN /\ Len(blocks'[l]) = Len(blocks[l]) + 1
                      /\ SubSeq(blocks'[l], 1, Len(blocks[l])) = blocks[l]
                 ELSE /\ Len(blocks'[l]) = Len(blocks[l])
                      /\ blockIdxsOf(blocks'[l]) = blockIdxsOf(blocks[l])
          /\ (alive[l] /\ ~alive'[l]) => blockIdxsOf(blocks[l]) \cap usedBlocksSet' = {}
       ]_vars

\* C14: a LocalBlankNodeManager holds two blocks, the second allocated when
\* the ids of the first were used up, while another one is not alive.
C14_SecondBlockAllocated ==
  \E l, m \in Locals :
    /\ alive[l] /\ ~alive[m]
    /\ Len(blocks[l]) = 2
    /\ allIdsUsed(blocks[l][1])
    /\ Cardinality(usedBlocksSet) = 2

(***************************************************************************)
(* Claims about TripleComponent (checked under TripleComponentSpec).       *)
(***************************************************************************)
TcKindsHeld(t) ==
  {k \in {"string", "double", "int", "variable"} :
     \/ k = "string" /\ isString(t)
     \/ k = "double" /\ isDouble(t)
     \/ k = "int" /\ isInt(t)
     \/ k = "variable" /\ isVariableComponent(t)}

\* C15: after a construction or an assignment that did not throw, exactly
\* the one of isString, isDouble, isInt and isVariable that matches the
\* given value is true and the matching getter returns that value; a
\* construction from or an assignment of a string that starts with '?'
\* throws.
C15_HoldsWhatWasGiven ==
  tcOps > 0 =>
    /\ (tcInput.kind = "string" /\ tcInput.text # <<>> /\ tcInput.text[1] = "?") => tcThrown
    /\ ~tcThrown =>
         /\ TcKindsHeld(tc) = {tcInput.kind}
         /\ tcInput.kind = "string" => getString(tc) = tcInput.text
         /\ tcInput.kind = "double" => getDouble(tc) = tcInput.number
         /\ tcInput.kind = "int" => getInt(tc) = tcInput.number
         /\ tcInput.kind = "variable" => getVariable(tc) = tcInput.text

\* C15: an object that held a double was assigned an int, then the string
\* "?y", which threw.
C15_IllegalStringAssigned ==
  /\ tcOps = 3
  /\ tcThrown
  /\ tcInput = TcString(<<"?", "y">>)
  /\ isInt(tc)


(***************************************************************************)
(* Claims about splitAtContextVars (checked under SplitSpec).              *)
(***************************************************************************)
PartSize(k) == Len(splitOut[k].graph.nodes)

PartVariables(k) ==
  UNION {splitOut[k].graph.nodes[n].variables : n \in 1..PartSize(k)}

\* C24: in the sequence splitAtContextVars returns, a sub-graph with fewer
\* nodes stands before every sub-graph with more nodes.
C24_SmallerSubGraphsFirst ==
  spc = "returned" =>
    \A a, b \in 1..Len(splitOut) : PartSize(a) < PartSize(b) => a < b

\* C24: the call has returned two sub-graphs, the larger one first.
C24_LargerSubGraphFirst ==
  /\ spc = "returned"
  /\ Len(splitOut) = 2
  /\ PartSize(1) > PartSize(2)

\* C25: every sub-graph splitAtContextVars returns comes with exactly the
\* filters of the call, in their order, whose lhs and rhs are both variables
\* of nodes of the sub-graph.
C25_FiltersOfSubGraph ==
  spc = "returned" =>
    \A k \in 1..Len(splitOut) :
      splitOut[k].filters =
        SelectSeq(splitIn.filters,
                  LAMBDA f : f.lhs \in PartVariables(k) /\ f.rhs \in PartVariables(k))

\* C25: the graph was split at a context variable, and a sub-graph has come
\* back with a filter one of whose variables is not in the sub-graph.
C25_FilterWithOutsideVariable ==
  /\ spc = "returned"
  /\ splitIn.contextVarToTextNodes # <<>>
  /\ \E k \in 1..Len(splitOut) : \E n \in 1..Len(splitOut[k].filters) :
       LET f == splitOut[k].filters[n]
       IN /\ {f.lhs, f.rhs} \cap PartVariables(k) # {}
          /\ ~({f.lhs, f.rhs} \subseteq PartVariables(k))

(***************************************************************************)
(* Claims about LazyJsonParser (checked under LazyJsonSpec).               *)
(***************************************************************************)
IsSuffix(s, t) ==
  Len(s) <= Len(t) /\ \A k \in 1..Len(s) : s[k] = t[Len(t) - Len(s) + k]

\* The calls that returned a non-empty string, in call order.
Yields == SelectSeq(ljResults, LAMBDA r : r.res # <<>>)

\* Reading a text as JSON would: the brackets and braces that are open at
\* its end, or <<"mismatch">> when a closing one does not match.  Characters
\* of string literals do not count.
RECURSIVE OpenAtEnd(_, _, _, _)
OpenAtEnd(text, open, inStr, esc) ==
  IF text = <<>> THEN (IF inStr THEN Append(open, Quote) ELSE open)
  ELSE LET c == Head(text) IN
    IF inStr
      THEN IF esc THEN OpenAtEnd(Tail(text), open, TRUE, FALSE)
           ELSE IF c = Backslash THEN OpenAtEnd(Tail(text), open, TRUE, TRUE)
           ELSE OpenAtEnd(Tail(text), open, c # Quote, FALSE)
    ELSE IF c = Quote THEN OpenAtEnd(Tail(text), open, TRUE, FALSE)
    ELSE IF c \in {"{", "["} THEN OpenAtEnd(Tail(text), Append(open, c), FALSE, FALSE)
    ELSE IF c \in {"}", "]"}
      THEN IF open # <<>> /\ open[Len(open)] = (IF c = "}" THEN "{" ELSE "[")
             THEN OpenAtEnd(Tail(text), SubSeq(open, 1, Len(open) - 1), FALSE, FALSE)
             ELSE <<"mismatch">>
    ELSE OpenAtEnd(Tail(text), open, FALSE, FALSE)

BalancedDocument(text) == OpenAtEnd(text, <<>>, FALSE, FALSE) = <<>>

\* The elements a text shows after the opening bracket of the array: the
\* pieces between the commas that are in no string, array or object, up to
\* the closing bracket of the array or the end of the text.
RECURSIVE ElementsFrom(_, _, _, _, _, _)
ElementsFrom(text, depth, inStr, esc, cur, acc) ==
  LET done == IF cur = <<>> THEN acc ELSE Append(acc, cur) IN
  IF text = <<>> THEN done
  ELSE LET c == Head(text)
           rest == Tail(text)
           more == Append(cur, c) IN
    IF inStr
      THEN IF esc THEN ElementsFrom(rest, depth, TRUE, FALSE, more, acc)
           ELSE IF c = Backslash THEN ElementsFrom(rest, depth, TRUE, TRUE, more, acc)
           ELSE ElementsFrom(rest, depth, c # Quote, FALSE, more, acc)
    ELSE IF c = Quote THEN ElementsFrom(rest, depth, TRUE, FALSE, more, acc)
    ELSE IF c \in {"{", "["} THEN ElementsFrom(rest, depth + 1, FALSE, FALSE, more, acc)
    ELSE IF c \in {"}", "]"}
      THEN IF depth = 0 THEN done
           ELSE ElementsFrom(rest, depth - 1, FALSE, FALSE, more, acc)
    ELSE IF c = "," /\ depth = 0 THEN ElementsFrom(rest, 0, FALSE, FALSE, <<>>, done)
    ELSE ElementsFrom(rest, depth, FALSE, FALSE, more, acc)

\* The elements of the k-th non-empty result: the first result starts with
\* the head of the document, every later one with the array-path prefix.
ElementsOfYield(k) ==
  LET res == Yields[k].res
      start == IF k = 1 THEN ljDocument.head ELSE prefixInArray(ljDocument.arrayPath)
  IN IF IsPrefix(start, res)
       THEN ElementsFrom(SubSeq(res, Len(start) + 1, Len(res)), 0, FALSE, FALSE, <<>>, <<>>)
       ELSE << <<"no array">> >>

Delivered == Flatten([k \in 1..Len(Yields) |-> ElementsOfYield(k)])

AllFed == ljDocument # NoDocument /\ ljFed = Len(TextOf(ljDocument))

\* The text of a result that comes from input_: the result without the
\* prefix and the suffix that parseChunk put around it.
Payload(k) ==
  LET res == Yields[k].res
      from == IF k = 1 THEN 1 ELSE Len(prefixInArray(ljDocument.arrayPath)) + 1
      to == IF Yields[k].inArrayPath
              THEN Len(res) - Len(suffixInArray(ljDocument.arrayPath)) ELSE Len(res)
  IN SubSeq(res, from, to)

\* The payloads with the commas that parseChunk dropped between them.
Returned ==
  Flatten([k \in 1..Len(Yields) |->
             IF k = 1 THEN Payload(k) ELSE <<",">> \o Payload(k)])

\* C29: whatever the positions at which the document is cut into chunks, no
\* call of parseChunk fails, the elements in the non-empty results so far,
\* taken in call order, are the first elements of the array in their order,
\* and once the whole document is fed they are all its elements.
C29_ChunkingIndependent ==
  /\ ~ljParser.thrown
  /\ IsPrefix(Delivered, ljDocument.elements)
  /\ AllFed => Delivered = ljDocument.elements

\* C29, the case: a call of parseChunk ended with an exception, and the
\* elements that were still in the buffer are never delivered.
C29_ElementsLostByException ==
  /\ ljParser.thrown
  /\ Len(Delivered) < Len(ljDocument.elements)
  /\ Len(Yields) > 0

\* C30: every non-empty result has balanced braces and brackets, every one
\* after the first starts with the array-path prefix, one returned inside
\* the array ends with the suffix, and the text returned is a front part of
\* the document that is no longer in the buffer.
C30_SelfContainedResults ==
  /\ \A k \in 1..Len(Yields) :
       /\ BalancedDocument(Yields[k].res)
       /\ k > 1 => IsPrefix(prefixInArray(ljDocument.arrayPath), Yields[k].res)
       /\ Yields[k].inArrayPath =>
            IsSuffix(suffixInArray(ljDocument.arrayPath), Yields[k].res)
  /\ ~ljParser.thrown =>
       /\ IsPrefix(Returned, TextOf(ljDocument))
       /\ ljFed - Len(ljParser.input) - Len(Returned) \in {0, 1}

\* C30, the case: a call in which the array ended returned the elements
\* before the last comma, without the suffix.
C30_ResultAfterArrayEnd ==
  \E k \in 1..Len(Yields) :
    /\ ~Yields[k].inArrayPath
    /\ ~BalancedDocument(Yields[k].res)
    /\ ElementsOfYield(k) # <<>>

====
